---- MODULE Spec2Model ----
(***************************************************************************)
(* A model of the subgraph bindings: the AssemblyScript buffer layout      *)
(* (ffi/buffer.rs), the typed-array view (ffi/array.rs), the host BigInt   *)
(* wrapper and its formatting (num/bigint.rs), the strings                 *)
(* (ffi/string.rs), the abort bridge (abort.rs), the logger (logger.rs),   *)
(* the exports start and memory.allocate (lib.rs), and, of cargo-subgraph, *)
(* the linker (linker.rs) and the JSON-RPC client (api/jsonrpc.rs).        *)
(*                                                                         *)
(* Two snapshots of the crate are modelled: the root crate (src/src) and   *)
(* the later `subgraph` crate (src/subgraph/src).  Where both define the   *)
(* same item the later one keeps the source's name and the earlier one     *)
(* carries the suffix _root.                                               *)
(***************************************************************************)
EXTENDS Integers, Sequences, FiniteSets, TLC

VARIABLES
    usize_bytes,   \* size_of::<usize>() of the build target: 4 (wasm32) or 8
    elem_ty,       \* the element type T of AscBuffer<T, A>
    align_ty,      \* the alignment type A of AscBuffer<T, A>
    req_len,       \* SpecLayout: the dynamic length passed to buffer_layout
    layout_res,    \* SpecLayout: <<what buffer_layout returned>>, <<>> before the call
    kind,          \* SpecBuffer: "buffer" (AscBuffer::new) or "string" (AscString::new)
    input,         \* SpecBuffer: the slice (elements) or the str (chars) given to new
    pc,            \* SpecBuffer: the position inside new, then "done" or "panicked"
    heap,          \* SpecBuffer: the bytes of the allocated block (Uninit where unwritten)
    heap_layout,   \* SpecBuffer: the Layout handed to alloc::alloc
    box_len,       \* SpecBuffer: the length half of the fat pointer (DstRef.len)
    payload_view,  \* SpecBuffer: the payload type of the live handle to the block
    copy_ops,      \* SpecBuffer: the write operations made into the payload so far
    wr_off,        \* SpecBuffer: the offset new wrote the first payload element at
    borrowed,      \* SpecBuffer: the address as_buf returned (NoAddr before)
    out_len,       \* SpecBuffer: what AscBuf::len returned through the borrowed view
    out_slice,     \* SpecBuffer: what AscBuf::as_slice returned through it
    rd_off,        \* SpecBuffer: the offset as_slice read the first element at
    owned2,        \* SpecBuffer: <<len, elements>> of the buffer to_owned built
    overflow_checks, \* SpecSlice: the build panics on integer overflow (debug) or wraps
    sbuf,          \* SpecSlice: the bytes of the backing array buffer
    view,          \* SpecSlice: the current AscUint8Array: [offset, len]
    panicked,      \* SpecSlice: a panic has ended the program
    last,          \* SpecSlice: <<the last slice call>>: the view sliced, the bounds, the outcome
    ints,          \* SpecHost: the BigInt values the guest holds
    hlast,         \* SpecHost: <<the last operation>>: its host call and what it returned
    fmt_out,       \* SpecHost: <<non-negative, digits>> the last Display::fmt padded
    big_in,        \* SpecBigInt: the argument of the constructor: bytes or a primitive
    big,           \* SpecBigInt: <<the BigInt constructed>>, <<>> before
    sig,           \* SpecBigInt: <<what signum returned>>
    sig_root,      \* SpecBigInt: <<what signum of the root crate returned>>
    str_in,        \* SpecString: <<the str given to AscString::new, or the units of a host string>>
    str_mem,       \* SpecString: the bytes of the block of the string
    strict_res,    \* SpecString: <<what to_string returned>>
    lossy_res,     \* SpecString: <<what to_string_lossy returned>>
    hook_set,      \* SpecAbort: start has run: the panic hook is the abort bridge
    gstate,        \* SpecAbort: "loaded", "running", "panicking" or "aborted"
    panic_info,    \* SpecAbort: <<the PanicInfo of the fault>>
    abort_calls,   \* SpecAbort: the arguments of each call of the host's abort
    gsteps,        \* SpecAbort: the guest steps made after start
    hcalls,        \* SpecAbort: the host calls made (and returned) after start
    alloc_size,    \* SpecAlloc: the size the host passes to memory.allocate
    alloc_heap,    \* SpecAlloc: the bytes the global allocator can still hand out
    alloc_ret,     \* SpecAlloc: <<what memory.allocate returned>>
    fmt_arg,       \* SpecFmt: the BigInt formatted and the Formatter's options
    fmt_text,      \* SpecFmt: <<the trait called, the text written>>
    logged,        \* SpecLogger: the records given to Logger::log, in order
    log_calls,     \* SpecLogger: the arguments of each call of the host's log.log
    dst_len,       \* SpecDst: the dynamic length given to alloc_buffer
    dst_box,       \* SpecDst: <<the box alloc_buffer returned>> (subgraph crate)
    dst_box_root,  \* SpecDst: <<the box alloc_buffer returned>> (root crate)
    st_pc,         \* SpecStart: "idle", "start" (inside start), "panicking", "aborted" or "trapped"
    st_step,       \* SpecStart: the call of start that runs next (0 outside start)
    st_hook,       \* SpecStart: the panic hook: "default" or "abort"
    st_logger,     \* SpecStart: log::set_logger has succeeded
    st_max,        \* SpecStart: log::max_level()
    st_starts,     \* SpecStart: the invocations of start that returned
    st_fault,      \* SpecStart: <<the fault that panicked>>
    st_aborts,     \* SpecStart: the calls of the host's abort
    st_logs,       \* SpecStart: the levels of the calls of the host's log.log
    lk_outdir,     \* SpecLinker: the output directory of the Linker
    lk_name,       \* SpecLinker: the name of the resource given to link
    lk_res,        \* SpecLinker: <<the outcome of link: its error, the paths written and uploaded>>
    rpc_id,        \* SpecRpc: the AtomicU64 id of the Client
    rpc_calls,     \* SpecRpc: each execute call: its position, and the id of its request
    rpc_sent       \* SpecRpc: the ids of the requests, in the order they were built

varsLayout == <<req_len, layout_res>>
varsTarget == <<usize_bytes, elem_ty, align_ty>>
varsNew == <<kind, input, pc, heap, heap_layout, box_len, payload_view, copy_ops, wr_off>>
varsBorrow == <<borrowed, out_len, out_slice, rd_off, owned2>>
varsBuffer == <<varsNew, varsBorrow>>
varsSlice == <<overflow_checks, sbuf, view, panicked, last>>
varsHost == <<ints, hlast, fmt_out>>
varsBigInt == <<big_in, big, sig, sig_root>>
varsString == <<str_in, str_mem, strict_res, lossy_res>>
varsAbort == <<hook_set, gstate, panic_info, abort_calls, gsteps, hcalls>>
varsAlloc == <<alloc_size, alloc_heap, alloc_ret>>
varsFmt == <<fmt_arg, fmt_text>>
varsLogger == <<logged, log_calls>>
varsDst == <<dst_len, dst_box, dst_box_root>>
varsStart == <<st_pc, st_step, st_hook, st_logger, st_max, st_starts, st_fault, st_aborts, st_logs>>
varsLinker == <<lk_outdir, lk_name, lk_res>>
varsRpc == <<rpc_id, rpc_calls, rpc_sent>>
varsLast == <<varsAlloc, varsFmt, varsLogger, varsDst, varsStart, varsLinker, varsRpc>>
varsLater == <<varsBigInt, varsString, varsAbort, varsLast>>
vars == <<varsTarget, varsLayout, varsBuffer, varsSlice, varsHost, varsLater>>

\* what the actions of one specification leave alone
othersLayout == <<varsBuffer, varsSlice, varsHost, varsLater>>
othersBuffer == <<varsLayout, varsSlice, varsHost, varsLater>>
othersSlice == <<varsTarget, varsLayout, varsBuffer, varsHost, varsLater>>
othersHost == <<varsTarget, varsLayout, varsBuffer, varsSlice, varsLater>>
othersBigInt == <<varsTarget, varsLayout, varsBuffer, varsSlice, varsHost, varsString, varsAbort, varsLast>>
othersString == <<varsLayout, varsBuffer, varsSlice, varsHost, varsBigInt, varsAbort, varsLast>>
othersAbort == <<varsTarget, varsLayout, varsBuffer, varsSlice, varsHost, varsBigInt, varsString, varsLast>>
varsEarly == <<varsTarget, varsLayout, varsBuffer, varsSlice, varsHost, varsBigInt, varsString, varsAbort>>
othersAlloc == <<varsEarly, varsFmt, varsLogger, varsDst, varsStart, varsLinker, varsRpc>>
othersFmt == <<varsEarly, varsAlloc, varsLogger, varsDst, varsStart, varsLinker, varsRpc>>
othersLogger == <<varsEarly, varsAlloc, varsFmt, varsDst, varsStart, varsLinker, varsRpc>>
othersDst == <<varsEarly, varsAlloc, varsFmt, varsLogger, varsStart, varsLinker, varsRpc>>
othersStart == <<varsEarly, varsAlloc, varsFmt, varsLogger, varsDst, varsLinker, varsRpc>>
othersLinker == <<varsEarly, varsAlloc, varsFmt, varsLogger, varsDst, varsStart, varsRpc>>
othersRpc == <<varsEarly, varsAlloc, varsFmt, varsLogger, varsDst, varsStart, varsLinker>>

----------------------------------------------------------------------------
(* Bounds of the model.                                                    *)

\* The address space of the layout model: usize has AddrBits bits there, so
\* isize::MAX = 2^(AddrBits-1) - 1.
AddrBits == 7

ISIZE_MAX == 2^(AddrBits - 1) - 1
USIZE_MAX == 2^AddrBits - 1

----------------------------------------------------------------------------
(* Primitive types and std::alloc::Layout.                                 *)

Types == {"u8", "u16", "u32", "u64", "usize"}
ElemTypes == {"u8", "u16", "u32", "u64"}

SizeOf(t) ==
    CASE t = "u8"    -> 1
      [] t = "u16"   -> 2
      [] t = "u32"   -> 4
      [] t = "u64"   -> 8
      [] t = "usize" -> usize_bytes

\* On wasm32 and on the 64-bit hosts the tests run on, every primitive
\* integer is aligned to its size.
AlignOf(t) == SizeOf(t)

\* no address / no value yet
NoAddr == 0 - 1

Max(a, b) == IF a >= b THEN a ELSE b

RoundUp(x, a) == ((x + a - 1) \div a) * a

LayoutError == [ok |-> FALSE, size |-> 0, align |-> 1]

LayoutOk(size, align) == [ok |-> TRUE, size |-> size, align |-> align]

\* usize::is_power_of_two
is_power_of_two(x) == \E k \in 0..(AddrBits - 1) : x = 2^k

\* Layout::from_size_align: align must be a power of two, and the size,
\* rounded up to align, must not exceed isize::MAX.
from_size_align(size, align) ==
    IF ~is_power_of_two(align) THEN LayoutError
    ELSE IF size > ISIZE_MAX - (align - 1) THEN LayoutError
    ELSE LayoutOk(size, align)

\* Layout::array::<T>(n)
Layout_array(t, n) ==
    IF n * SizeOf(t) > ISIZE_MAX - (AlignOf(t) - 1)
    THEN LayoutError
    ELSE LayoutOk(n * SizeOf(t), AlignOf(t))

\* Layout::extend(self, next): (layout, offset of next), or an error
Layout_extend(self, next) ==
    LET new_align == Max(self.align, next.align)
        offset    == RoundUp(self.size, next.align)
        new_size  == offset + next.size
        l         == from_size_align(new_size, new_align)
    IN  IF ~self.ok \/ ~next.ok \/ ~l.ok
        THEN [ok |-> FALSE, layout |-> LayoutError, offset |-> 0]
        ELSE [ok |-> TRUE, layout |-> l, offset |-> offset]

\* Layout::pad_to_align
pad_to_align(l) == LayoutOk(RoundUp(l.size, l.align), l.align)

----------------------------------------------------------------------------
(* #[repr(C)] structs: the fields are laid out in declaration order, each  *)
(* at the next offset that is a multiple of its alignment.                 *)

Field(size, align) == [size |-> size, align |-> align]

RECURSIVE FieldOffset(_, _)
FieldOffset(fields, k) ==
    IF k = 1 THEN 0
    ELSE RoundUp(FieldOffset(fields, k - 1) + fields[k - 1].size, fields[k].align)

RECURSIVE StructAlign(_)
StructAlign(fields) ==
    IF fields = <<>> THEN 1
    ELSE Max(Head(fields).align, StructAlign(Tail(fields)))

StructLayout(fields) ==
    LET n == Len(fields)
    IN  LayoutOk(RoundUp(FieldOffset(fields, n) + fields[n].size, StructAlign(fields)),
                 StructAlign(fields))

\* struct Inner<T: ?Sized, Alignment> { len: usize, _align: [Alignment; 0], buf: T }
\* with buf = [T; n] (n = 0 for the borrowed AscBuf, the dynamic length for
\* the owned AscBuffer).
Inner(t, a, n) ==
    << Field(SizeOf("usize"), AlignOf("usize")),
       Field(0, AlignOf(a)),
       Field(n * SizeOf(t), AlignOf(t)) >>

LenFieldOffset(t, a, n) == FieldOffset(Inner(t, a, n), 1)

\* the offset of the first payload element
BufFieldOffset(t, a, n) == FieldOffset(Inner(t, a, n), 3)

\* the header without its alignment type (the layout of a bare usize)
AscBufLayout_usize(t, a) == LayoutOk(SizeOf("usize"), AlignOf("usize"))

\* Layout::new::<AscBuf<T, A>>()
AscBufLayout(t, a) == StructLayout(Inner(t, a, 0))

\* Layout::for_value(&*buffer) of an owned AscBuffer<T, A> of n elements
AscBufferLayout(t, a, n) == StructLayout(Inner(t, a, n))

\* a layout whose size wraps around instead of failing
buffer_layout_wrapping(t, a, len) ==
    LET h == AscBufLayout(t, a)
    IN  LayoutOk(RoundUp(h.size + len * SizeOf(t), h.align) % (ISIZE_MAX + 1), h.align)

buffer_layout_unpadded(t, a, len) ==
    LET e == Layout_extend(AscBufLayout(t, a), Layout_array(t, len))
    IN  IF e.ok THEN e.layout ELSE LayoutError

\* fn buffer_layout<T, A>(len: usize) -> Result<Layout, LayoutError>
buffer_layout(t, a, len) ==
    LET e == Layout_extend(AscBufLayout(t, a), Layout_array(t, len))
    IN  IF e.ok THEN pad_to_align(e.layout) ELSE LayoutError

----------------------------------------------------------------------------
(* SpecLayout: buffer_layout applied to every (T, A, len).                 *)

InitTarget ==
    /\ usize_bytes \in {4, 8}
    /\ elem_ty \in ElemTypes
    /\ align_ty \in Types

LayoutIdle == req_len = 0 /\ layout_res = <<>>

BufferIdle ==
    /\ kind = "buffer" /\ input = <<>> /\ pc = "off"
    /\ heap = <<>> /\ heap_layout = LayoutError /\ box_len = 0
    /\ payload_view = "none" /\ copy_ops = 0 /\ wr_off = NoAddr
    /\ borrowed = NoAddr /\ out_len = NoAddr /\ out_slice = <<>>
    /\ rd_off = NoAddr /\ owned2 = <<>>

SliceIdle ==
    /\ overflow_checks = FALSE /\ sbuf = <<>> /\ view = [offset |-> 0, len |-> 0]
    /\ panicked = FALSE /\ last = <<>>

HostIdle == ints = <<>> /\ hlast = <<>> /\ fmt_out = <<>>

BigIntIdle == big_in = <<>> /\ big = <<>> /\ sig = <<>> /\ sig_root = <<>>

StringIdle == str_in = <<>> /\ str_mem = <<>> /\ strict_res = <<>> /\ lossy_res = <<>>

AbortIdle ==
    /\ hook_set = FALSE /\ gstate = "off" /\ panic_info = <<>> /\ abort_calls = <<>>
    /\ gsteps = 0 /\ hcalls = 0

AllocIdle == alloc_size = 0 /\ alloc_heap = 0 /\ alloc_ret = <<>>

FmtIdle == fmt_arg = <<>> /\ fmt_text = <<>>

LoggerIdle == logged = <<>> /\ log_calls = <<>>

DstIdle == dst_len = 0 /\ dst_box = <<>> /\ dst_box_root = <<>>

StartIdle == st_pc = "off" /\ st_step = 0 /\ st_hook = "default" /\ st_logger = FALSE /\ st_max = "Off" /\ st_starts = 0 /\ st_fault = <<>> /\ st_aborts = 0 /\ st_logs = <<>>

LinkerIdle == lk_outdir = <<>> /\ lk_name = <<>> /\ lk_res = <<>>

RpcIdle == rpc_id = 0 /\ rpc_calls = <<>> /\ rpc_sent = <<>>

LastIdle == AllocIdle /\ FmtIdle /\ LoggerIdle /\ DstIdle /\ StartIdle /\ LinkerIdle /\ RpcIdle

LaterIdle == BigIntIdle /\ StringIdle /\ AbortIdle /\ LastIdle

\* every group of the specifications above SpecAlloc, at rest
EarlyIdle ==
    /\ usize_bytes = 4 /\ elem_ty = "u8" /\ align_ty = "u8"
    /\ LayoutIdle /\ BufferIdle /\ SliceIdle /\ HostIdle
    /\ BigIntIdle /\ StringIdle /\ AbortIdle

LastIdleButAlloc == FmtIdle /\ LoggerIdle /\ DstIdle /\ StartIdle /\ LinkerIdle /\ RpcIdle
IdleButAlloc == EarlyIdle /\ LastIdleButAlloc
LastIdleButFmt == AllocIdle /\ LoggerIdle /\ DstIdle /\ StartIdle /\ LinkerIdle /\ RpcIdle
IdleButFmt == EarlyIdle /\ LastIdleButFmt
LastIdleButLogger == AllocIdle /\ FmtIdle /\ DstIdle /\ StartIdle /\ LinkerIdle /\ RpcIdle
IdleButLogger == EarlyIdle /\ LastIdleButLogger
LastIdleButDst == AllocIdle /\ FmtIdle /\ LoggerIdle /\ StartIdle /\ LinkerIdle /\ RpcIdle
IdleButDst == EarlyIdle /\ LastIdleButDst
LastIdleButStart == AllocIdle /\ FmtIdle /\ LoggerIdle /\ DstIdle /\ LinkerIdle /\ RpcIdle
IdleButStart == EarlyIdle /\ LastIdleButStart
LastIdleButLinker == AllocIdle /\ FmtIdle /\ LoggerIdle /\ DstIdle /\ StartIdle /\ RpcIdle
IdleButLinker == EarlyIdle /\ LastIdleButLinker
LastIdleButRpc == AllocIdle /\ FmtIdle /\ LoggerIdle /\ DstIdle /\ StartIdle /\ LinkerIdle
IdleButRpc == EarlyIdle /\ LastIdleButRpc

\* the same, with the target left open
EarlyIdleButTarget ==
    /\ LayoutIdle /\ BufferIdle /\ SliceIdle /\ HostIdle
    /\ BigIntIdle /\ StringIdle /\ AbortIdle

InitLayout ==
    /\ InitTarget
    /\ req_len \in 0..USIZE_MAX
    /\ layout_res = <<>>
    /\ BufferIdle
    /\ SliceIdle
    /\ HostIdle
    /\ LaterIdle

ComputeLayout ==
    /\ layout_res = <<>>
    /\ layout_res' = <<buffer_layout(elem_ty, align_ty, req_len)>>
    /\ UNCHANGED <<varsTarget, req_len, othersLayout>>

NextLayout == ComputeLayout

SpecLayout == InitLayout /\ [][NextLayout]_vars

----------------------------------------------------------------------------
(* Memory: a block is a sequence of bytes, byte k of the block at index    *)
(* k + 1; a byte that was never written is Uninit.                         *)

Uninit == 0 - 1

\* what a read that touches an unwritten or out-of-block byte yields
Undef == 0 - 2

RECURSIVE to_le_bytes(_, _)
to_le_bytes(v, n) ==
    IF n = 0 THEN <<>> ELSE <<v % 256>> \o to_le_bytes(v \div 256, n - 1)

RECURSIVE from_le_bytes(_)
from_le_bytes(bytes) ==
    IF bytes = <<>> THEN 0 ELSE Head(bytes) + 256 * from_le_bytes(Tail(bytes))

WriteBytes(mem, off, bytes) ==
    [i \in 1..Len(mem) |->
        IF i > off /\ i <= off + Len(bytes) THEN bytes[i - off] ELSE mem[i]]

ReadValue(mem, off, size) ==
    IF off < 0 \/ off + size > Len(mem) THEN Undef
    ELSE LET bytes == [i \in 1..size |-> mem[off + i]]
         IN  IF \E i \in 1..size : bytes[i] = Uninit THEN Undef
             ELSE from_le_bytes(bytes)

\* the concatenation of the sequences of seqs, by halves
RECURSIVE Flatten(_)
Flatten(seqs) ==
    IF seqs = <<>> THEN <<>>
    ELSE IF Len(seqs) = 1 THEN seqs[1]
    ELSE LET h == Len(seqs) \div 2
         IN  Flatten(SubSeq(seqs, 1, h)) \o Flatten(SubSeq(seqs, h + 1, Len(seqs)))

\* the bytes of a slice of elements of type t
SliceBytes(t, elems) == Flatten([i \in 1..Len(elems) |-> to_le_bytes(elems[i], SizeOf(t))])

----------------------------------------------------------------------------
(* AscBuffer<T, A> (src/subgraph/src/ffi/buffer.rs)                        *)

\* alloc_buffer: alloc::alloc(layout), a block of layout.size unwritten bytes
alloc_buffer(layout) == [i \in 1..layout.size |-> Uninit]

\* buffer.inner.len = slice.len()
write_len(t, a, mem, n) ==
    WriteBytes(mem, LenFieldOffset(t, a, n), to_le_bytes(n, SizeOf("usize")))

\* the payload written right behind the length field
CopyDst_unaligned(t, a, n) == SizeOf("usize")

\* the offset of buffer.inner.buf, where ptr::copy writes
CopyDst(t, a, n) == BufFieldOffset(t, a, n)

copy_short(t, a, mem, elems) ==
    WriteBytes(mem, CopyDst(t, a, Len(elems)),
               SliceBytes(t, SubSeq(elems, 1, Len(elems) - 1)))

\* ptr::copy(slice.as_ptr(), buffer.inner.buf.as_mut_ptr().cast(), slice.len())
copy_payload(t, a, mem, elems) ==
    WriteBytes(mem, CopyDst(t, a, Len(elems)), SliceBytes(t, elems))

as_buf_at_payload(t, a, n) == BufFieldOffset(t, a, n)

\* AscBuffer::as_buf: &self.inner.len, cast to *const AscBuf<T, A>
as_buf(t, a, n) == LenFieldOffset(t, a, n)

\* AscBuf::len: self.inner.len, read through the borrowed layout
AscBuf_len(t, a, mem, addr) ==
    ReadValue(mem, addr + LenFieldOffset(t, a, 0), SizeOf("usize"))

\* the address of self.inner.buf in the borrowed layout, where as_slice reads
SliceSrc(t, a, addr) == addr + BufFieldOffset(t, a, 0)

\* AscBuf::as_slice: slice::from_raw_parts(buf as *const _, *len)
as_slice(t, a, mem, addr) ==
    LET n == AscBuf_len(t, a, mem, addr)
    IN  IF n = Undef THEN <<Undef>>
        ELSE [i \in 1..n |-> ReadValue(mem, SliceSrc(t, a, addr) + (i - 1) * SizeOf(t), SizeOf(t))]

\* AscBuffer::new, start to end: the block it returns (<<>> when it panics)
AscBuffer_new(t, a, elems) ==
    LET layout == buffer_layout(t, a, Len(elems))
    IN  IF ~layout.ok THEN <<>>
        ELSE copy_payload(t, a, write_len(t, a, alloc_buffer(layout), Len(elems)), elems)

\* ToOwned for AscBuf: AscBuffer::new(self), self read through AsRef<[T]>
to_owned(t, a, mem, addr) == AscBuffer_new(t, a, as_slice(t, a, mem, addr))

----------------------------------------------------------------------------
(* AscString (src/src/ffi/string.rs)                                       *)

\* the low 16 bits of the char as its only unit
encode_utf16_char_truncating(c) == <<c % 65536>>

\* char::encode_utf16
encode_utf16_char(c) ==
    IF c < 65536 THEN <<c>>
    ELSE << 55296 + ((c - 65536) \div 1024), 56320 + ((c - 65536) % 1024) >>

\* str::encode_utf16
encode_utf16(str) == Flatten([i \in 1..Len(str) |-> encode_utf16_char(str[i])])

\* struct Inner<T: ?Sized> { len: usize, buf: T } with buf = [u16; n]
StringInner(n) ==
    << Field(SizeOf("usize"), AlignOf("usize")), Field(n * SizeOf("u16"), AlignOf("u16")) >>

\* fn string_layout(len: usize) -> Result<Layout, LayoutErr>
string_layout(len) ==
    LET e == Layout_extend(LayoutOk(SizeOf("usize"), AlignOf("usize")), Layout_array("u16", len))
    IN  IF e.ok THEN pad_to_align(e.layout) ELSE LayoutError

----------------------------------------------------------------------------
(* SpecBuffer: the construction of a buffer or of a string, step by step,  *)
(* and the borrowed view of the finished buffer.                           *)

\* the longest input sequence
MaxLen == 3

\* element values: for u8 the bytes of the array_buffer_layout test and the
\* largest byte, for the wider types a value whose bytes differ from one another
ElemVals(t) == IF t = "u8" THEN {0, 1, 2, 255} ELSE {7, 258}

\* 'H', 'e with acute', and the crab (U+1F980), outside the 16-bit range
Chars == {72, 233, 129408}

SeqsUpTo(S, n) == UNION {[1..k -> S] : k \in 0..n}

\* The inputs whose layout is at the edge of the address space.  A slice or
\* a str never has more than isize::MAX bytes; its block has a header and
\* padding on top, and the code units of a str take up to twice its bytes.
\* Edge is more than the largest header and padding together.
Edge == 2 * SizeOf("u64")

\* slices of n equal elements, n * size_of::<T>() within Edge below isize::MAX
LongSlices(t) ==
    {[i \in 1..n |-> 7] :
        n \in {m \in (MaxLen + 1)..ISIZE_MAX :
                  m * SizeOf(t) <= ISIZE_MAX /\ m * SizeOf(t) >= ISIZE_MAX - Edge}}

\* strs of n 'H', their code units within Edge of isize::MAX bytes
LongStrs ==
    {[i \in 1..n |-> 72] :
        n \in {m \in (MaxLen + 1)..ISIZE_MAX :
                  m * SizeOf("u16") <= ISIZE_MAX + Edge /\ m * SizeOf("u16") >= ISIZE_MAX - Edge}}

\* the code units (string) or the elements (buffer) new has to store
Units == IF kind = "string" THEN encode_utf16(input) ELSE input

InitBuffer ==
    /\ usize_bytes \in {4, 8}
    /\ kind \in {"buffer", "string"}
    /\ elem_ty \in (IF kind = "string" THEN {"u16"} ELSE ElemTypes)
    /\ align_ty \in (IF kind = "string" THEN {"u16"} ELSE Types)
    /\ input \in (IF kind = "string" THEN SeqsUpTo(Chars, MaxLen) \cup LongStrs
                                      ELSE SeqsUpTo(ElemVals(elem_ty), MaxLen)
                                               \cup LongSlices(elem_ty))
    /\ pc = "start"
    /\ heap = <<>> /\ heap_layout = LayoutError /\ box_len = 0
    /\ payload_view = "none" /\ copy_ops = 0 /\ wr_off = NoAddr
    /\ borrowed = NoAddr /\ out_len = NoAddr /\ out_slice = <<>>
    /\ rd_off = NoAddr /\ owned2 = <<>>
    /\ LayoutIdle
    /\ SliceIdle
    /\ HostIdle
    /\ LaterIdle

\* alloc_buffer::<T, A>(slice.len()): the layout, expect(), alloc, and the
\* transmute of the DstRef to Box<AscBuffer<MaybeUninit<T>, A>>
BufferAlloc ==
    /\ kind = "buffer" /\ pc = "start"
    /\ LET layout == buffer_layout(elem_ty, align_ty, Len(input))
       IN  IF ~layout.ok
           THEN /\ pc' = "panicked"
                /\ UNCHANGED <<heap, heap_layout, box_len, payload_view>>
           ELSE /\ pc' = "allocated"
                /\ heap' = alloc_buffer(layout)
                /\ heap_layout' = layout
                /\ box_len' = Len(input)
                /\ payload_view' = "MaybeUninit"
    /\ UNCHANGED <<varsTarget, othersBuffer, kind, input, copy_ops, wr_off, varsBorrow>>

\* buffer.inner.len = slice.len()
BufferWriteLen ==
    /\ kind = "buffer" /\ pc = "allocated"
    /\ heap' = write_len(elem_ty, align_ty, heap, Len(input))
    /\ pc' = "len_written"
    /\ UNCHANGED <<varsTarget, othersBuffer, kind, input, heap_layout, box_len,
                   payload_view, copy_ops, wr_off, varsBorrow>>

\* ptr::copy(...): one bulk copy through a raw pointer
BufferCopy ==
    /\ kind = "buffer" /\ pc = "len_written"
    /\ heap' = copy_payload(elem_ty, align_ty, heap, input)
    /\ wr_off' = CopyDst(elem_ty, align_ty, box_len)
    /\ copy_ops' = copy_ops + 1
    /\ pc' = "copied"
    /\ UNCHANGED <<varsTarget, othersBuffer, kind, input, heap_layout, box_len,
                   payload_view, varsBorrow>>

\* mem::transmute(buffer): Box<AscBuffer<MaybeUninit<T>, A>> to Box<Self>
BufferTransmute ==
    /\ kind = "buffer" /\ pc = "copied"
    /\ payload_view' = "typed"
    /\ pc' = "done"
    /\ UNCHANGED <<varsTarget, othersBuffer, kind, input, heap, heap_layout, box_len,
                   copy_ops, wr_off, varsBorrow>>

\* alloc_string(len): alloc, and the transmute of the DstRef to Box<AscString>,
\* whose payload type is [u16]
StringAlloc ==
    /\ kind = "string" /\ pc = "start"
    /\ LET layout == string_layout(Len(Units))
       IN  IF ~layout.ok
           THEN /\ pc' = "panicked"
                /\ UNCHANGED <<heap, heap_layout, box_len, payload_view>>
           ELSE /\ pc' = "allocated"
                /\ heap' = alloc_buffer(layout)
                /\ heap_layout' = layout
                /\ box_len' = Len(Units)
                /\ payload_view' = "typed"
    /\ UNCHANGED <<varsTarget, othersBuffer, kind, input, copy_ops, wr_off, varsBorrow>>

\* string.inner.len = len
StringWriteLen ==
    /\ kind = "string" /\ pc = "allocated"
    /\ heap' = WriteBytes(heap, FieldOffset(StringInner(box_len), 1),
                          to_le_bytes(Len(Units), SizeOf("usize")))
    /\ pc' = "len_written"
    /\ UNCHANGED <<varsTarget, othersBuffer, kind, input, heap_layout, box_len,
                   payload_view, copy_ops, wr_off, varsBorrow>>

\* one turn of `for (i, c) in s.encode_utf16().enumerate()`:
\* string.inner.buf[i] = c, through IndexMut of the [u16] payload
StringWriteUnit ==
    /\ kind = "string" /\ pc = "len_written" /\ copy_ops < Len(Units)
    /\ heap' = WriteBytes(heap,
                          FieldOffset(StringInner(box_len), 2) + copy_ops * SizeOf("u16"),
                          to_le_bytes(Units[copy_ops + 1], SizeOf("u16")))
    /\ wr_off' = IF copy_ops = 0 THEN FieldOffset(StringInner(box_len), 2) ELSE wr_off
    /\ copy_ops' = copy_ops + 1
    /\ UNCHANGED <<varsTarget, othersBuffer, kind, input, pc, heap_layout, box_len,
                   payload_view, varsBorrow>>

\* the loop is over: new returns the string
StringReturn ==
    /\ kind = "string" /\ pc = "len_written" /\ copy_ops = Len(Units)
    /\ pc' = "done"
    /\ UNCHANGED <<varsTarget, othersBuffer, kind, input, heap, heap_layout, box_len,
                   payload_view, copy_ops, wr_off, varsBorrow>>

\* AscBuffer::as_buf (also Deref::deref and Borrow::borrow, which call it)
AsBuf ==
    /\ kind = "buffer" /\ pc = "done" /\ borrowed = NoAddr
    /\ borrowed' = as_buf(elem_ty, align_ty, box_len)
    /\ UNCHANGED <<varsTarget, othersBuffer, varsNew, out_len, out_slice, rd_off, owned2>>

\* AscBuf::len and AscBuf::as_slice on the borrowed view
ReadBorrowed ==
    /\ kind = "buffer" /\ pc = "done" /\ borrowed # NoAddr /\ out_len = NoAddr
    /\ out_len' = AscBuf_len(elem_ty, align_ty, heap, borrowed)
    /\ out_slice' = as_slice(elem_ty, align_ty, heap, borrowed)
    /\ rd_off' = SliceSrc(elem_ty, align_ty, borrowed)
    /\ UNCHANGED <<varsTarget, othersBuffer, varsNew, borrowed, owned2>>

\* ToOwned::to_owned on the borrowed view; the new buffer is read back as
\* <<len(), as_slice()>> through its own borrowed view
ToOwned ==
    /\ kind = "buffer" /\ pc = "done" /\ borrowed # NoAddr /\ owned2 = <<>>
    /\ LET mem == to_owned(elem_ty, align_ty, heap, borrowed)
           n   == Len(as_slice(elem_ty, align_ty, heap, borrowed))
           at  == as_buf(elem_ty, align_ty, n)
       IN  owned2' = << AscBuf_len(elem_ty, align_ty, mem, at),
                        as_slice(elem_ty, align_ty, mem, at) >>
    /\ UNCHANGED <<varsTarget, othersBuffer, varsNew, borrowed, out_len, out_slice, rd_off>>

NextBuffer ==
    \/ BufferAlloc
    \/ BufferWriteLen
    \/ BufferCopy
    \/ BufferTransmute
    \/ StringAlloc
    \/ StringWriteLen
    \/ StringWriteUnit
    \/ StringReturn
    \/ AsBuf
    \/ ReadBorrowed
    \/ ToOwned

SpecBuffer == InitBuffer /\ [][NextBuffer]_vars

----------------------------------------------------------------------------
(* Claims about the layout (SpecLayout) and the construction (SpecBuffer). *)

\* the size C3 states: A's alignment for the header and for the total
ClaimedSize(t, a, n) ==
    RoundUp(RoundUp(SizeOf("usize"), AlignOf(a)) + n * SizeOf(t), AlignOf(a))

\* the alignment of the block: the strictest of usize, A and T
BlockAlign(t, a) == Max(AlignOf("usize"), Max(AlignOf(a), AlignOf(t)))

LayoutComputed == layout_res # <<>> /\ layout_res[1].ok

\* C3 as stated: for every (T, A, L) the size buffer_layout computes is the
\* smallest multiple of A's alignment >= (header padded to A's alignment)
\* + L * size(T).
C3_Original ==
    LayoutComputed => layout_res[1].size = ClaimedSize(elem_ty, align_ty, req_len)

\* C3 amended: the size buffer_layout computes is the smallest multiple of M
\* >= (header padded to M) + L * size(T), where M is the largest of the
\* alignments of usize, A and T; it is the size C3 states whenever A is
\* aligned at least as strictly as usize and as T.
C3_LayoutSize ==
    LayoutComputed =>
        LET M == BlockAlign(elem_ty, align_ty)
        IN  /\ layout_res[1].align = M
            /\ layout_res[1].size
                 = RoundUp(RoundUp(SizeOf("usize"), M) + req_len * SizeOf(elem_ty), M)
            /\ (AlignOf(align_ty) = M =>
                  layout_res[1].size = ClaimedSize(elem_ty, align_ty, req_len))

\* a layout whose total is padded, with A aligned less strictly than usize
C3_Witness ==
    /\ LayoutComputed
    /\ req_len > 0
    /\ AlignOf(align_ty) < AlignOf("usize")
    /\ layout_res[1].size > SizeOf("usize") + req_len * SizeOf(elem_ty)
    /\ layout_res[1].size # ClaimedSize(elem_ty, align_ty, req_len)

LenFieldWritten == pc \in {"len_written", "copied", "done"}

\* C4 as stated: the payload is written and read at the smallest offset
\* >= size_of(usize) that is a multiple of A's alignment.
C4_Original ==
    (kind = "buffer" /\ wr_off # NoAddr) =>
        wr_off = RoundUp(SizeOf("usize"), AlignOf(align_ty))

\* C4 amended: the length field is at offset 0, and the offset new writes
\* the payload at and the offset as_slice reads it at are both the smallest
\* offset >= size_of(usize) that is a multiple of the alignments of A and of T.
C4_PayloadOffset ==
    kind = "buffer" =>
        LET off == RoundUp(SizeOf("usize"), Max(AlignOf(align_ty), AlignOf(elem_ty)))
        IN  /\ LenFieldWritten => ReadValue(heap, 0, SizeOf("usize")) = Len(input)
            /\ wr_off # NoAddr => wr_off = off
            /\ rd_off # NoAddr => rd_off = off /\ rd_off = wr_off

\* a non-empty u64 buffer on wasm32, aligned as u32, written and read back
C4_Witness ==
    /\ kind = "buffer" /\ usize_bytes = 4 /\ elem_ty = "u64" /\ align_ty = "u32"
    /\ Len(input) > 0 /\ wr_off # NoAddr /\ rd_off # NoAddr

\* C5: the array buffer (u8 elements, aligned as u64) built from n bytes has
\* the length field n, alignment 8, its payload at the header padded to 8
\* and a total size of (padded header + n) rounded up to 8.
C5_ArrayBufferLayout ==
    (kind = "buffer" /\ elem_ty = "u8" /\ align_ty = "u64" /\ pc = "done") =>
        /\ ReadValue(heap, 0, SizeOf("usize")) = Len(input)
        /\ heap_layout.align = 8
        /\ wr_off = RoundUp(SizeOf("usize"), 8)
        /\ heap_layout.size = RoundUp(RoundUp(SizeOf("usize"), 8) + Len(input), 8)
        /\ Len(heap) = heap_layout.size

\* the array buffer of the bytes {0x00, 0x01, 0x02}
C5_Witness ==
    /\ kind = "buffer" /\ elem_ty = "u8" /\ align_ty = "u64" /\ pc = "done"
    /\ input = <<0, 1, 2>>
    /\ ReadValue(heap, 0, SizeOf("usize")) = 3

\* C8: AscBuffer::new(s) yields a buffer whose len() is the number of
\* elements of s and whose as_slice() is s; to_owned() on the borrowed
\* buffer yields a buffer with the same length and elements.
C8_NewRoundTrip ==
    kind = "buffer" =>
        /\ out_len # NoAddr => out_len = Len(input) /\ out_slice = input
        /\ owned2 # <<>> => owned2 = <<Len(input), input>>

\* a buffer of several elements, read back and cloned by to_owned
C8_Witness ==
    /\ kind = "buffer" /\ Len(input) >= 2 /\ input[1] # input[2]
    /\ out_len # NoAddr /\ owned2 # <<>>

\* the offset of the first payload byte in the block being constructed
PayloadStart ==
    IF kind = "string" THEN FieldOffset(StringInner(box_len), 2)
    ELSE BufFieldOffset(elem_ty, align_ty, box_len)

PayloadInitialized ==
    \A i \in 1..(box_len * SizeOf(elem_ty)) :
        PayloadStart + i <= Len(heap) /\ heap[PayloadStart + i] # Uninit

\* C9 as stated: a buffer or a string is constructed by allocating, writing
\* the length field, then copying all elements in one bulk operation; no
\* handle whose type claims an initialized payload exists before the copy
\* has completed, and the value returned is fully initialized.
C9_Original ==
    /\ payload_view = "typed" => PayloadInitialized
    /\ copy_ops <= 1
    /\ copy_ops > 0 => LenFieldWritten
    /\ pc = "done" => PayloadInitialized /\ ReadValue(heap, 0, SizeOf("usize")) = box_len

\* C10: the borrowed view as_buf returns starts at the address of the owned
\* buffer and reports the length and the elements the owned buffer holds;
\* the distance from the length field to the payload is the same in both
\* layouts; the block allocated for an empty owned buffer has the layout of
\* the borrowed type.
C10_OwnedAndBorrowed ==
    (kind = "buffer" /\ borrowed # NoAddr) =>
        /\ borrowed = 0
        /\ out_len # NoAddr =>
             /\ out_len = ReadValue(heap, LenFieldOffset(elem_ty, align_ty, box_len),
                                    SizeOf("usize"))
             /\ out_len = box_len
             /\ out_slice = [i \in 1..box_len |->
                               ReadValue(heap, wr_off + (i - 1) * SizeOf(elem_ty),
                                         SizeOf(elem_ty))]
             /\ rd_off - borrowed = wr_off - LenFieldOffset(elem_ty, align_ty, box_len)
        /\ box_len = 0 => heap_layout = AscBufLayout(elem_ty, align_ty)

\* a non-empty buffer read through its borrowed view
C10_Witness ==
    /\ kind = "buffer" /\ borrowed # NoAddr /\ out_len # NoAddr /\ box_len > 0
    /\ AlignOf(align_ty) > AlignOf("usize")

\* an empty buffer, borrowed
C10_WitnessEmpty == kind = "buffer" /\ borrowed # NoAddr /\ box_len = 0

----------------------------------------------------------------------------
(* AscUint8Array (src/src/ffi/array.rs): a (buffer, offset, len) view.     *)

\* usize has UsizeBits bits in the arithmetic of the view
UsizeBits == 3

\* the longest backing buffer
MaxBufLen == 3

SliceUsizeMax == 2^UsizeBits - 1

\* usize::saturating_add
saturating_add(a, b) == IF a + b > SliceUsizeMax THEN SliceUsizeMax ELSE a + b

\* a + b on usize: a panic when the build checks for overflow (debug), the
\* wrapped sum when it does not (release)
usize_add(a, b) ==
    IF a + b > SliceUsizeMax
    THEN IF overflow_checks
         THEN [panic |-> TRUE, value |-> 0]
         ELSE [panic |-> FALSE, value |-> (a + b) % (SliceUsizeMax + 1)]
    ELSE [panic |-> FALSE, value |-> a + b]

\* std::ops::Bound<usize>
Included(v) == [kind |-> "Included", value |-> v]
Excluded(v) == [kind |-> "Excluded", value |-> v]
Unbounded == [kind |-> "Unbounded", value |-> 0]

Bounds ==
    {Included(v) : v \in 0..SliceUsizeMax} \cup {Excluded(v) : v \in 0..SliceUsizeMax}
        \cup {Unbounded}

NoView == [offset |-> 0, len |-> 0]

SlicePanic == [panic |-> TRUE, view |-> NoView]

\* AscUint8Array::new
AscUint8Array_new(buffer) == [offset |-> 0, len |-> Len(buffer)]

\* self.offset + match range.start_bound() { ... }
slice_offset(self, start) == usize_add(self.offset, start)

\* slice without its assert!
slice_no_assert(self, sb, eb) ==
    LET start == CASE sb.kind = "Included"  -> sb.value
                   [] sb.kind = "Excluded"  -> saturating_add(sb.value, 1)
                   [] sb.kind = "Unbounded" -> 0
        offset == slice_offset(self, start)
        end == CASE eb.kind = "Included"  -> saturating_add(eb.value, 1)
                 [] eb.kind = "Excluded"  -> eb.value
                 [] eb.kind = "Unbounded" -> 0
    IN  IF offset.panic THEN SlicePanic
        ELSE IF end < offset.value THEN SlicePanic
        ELSE [panic |-> FALSE, view |-> [offset |-> offset.value, len |-> end - offset.value]]

\* AscUint8Array::slice
slice(self, sb, eb) ==
    LET start == CASE sb.kind = "Included"  -> sb.value
                   [] sb.kind = "Excluded"  -> saturating_add(sb.value, 1)
                   [] sb.kind = "Unbounded" -> 0
        offset == slice_offset(self, start)
        end == CASE eb.kind = "Included"  -> saturating_add(eb.value, 1)
                 [] eb.kind = "Excluded"  -> eb.value
                 [] eb.kind = "Unbounded" -> 0
    IN  IF offset.panic THEN SlicePanic
        ELSE IF end < offset.value THEN SlicePanic   \* end.checked_sub(offset)
        ELSE LET len == end - offset.value
                 sum == usize_add(offset.value, len)
             IN  IF sum.panic \/ ~(self.len >= sum.value)   \* assert!
                 THEN SlicePanic
                 ELSE [panic |-> FALSE, view |-> [offset |-> offset.value, len |-> len]]

\* AscUint8Array::as_bytes: &self.buffer.as_slice()[self.offset..(self.offset + self.len)]
as_bytes(buffer, self) ==
    LET end == usize_add(self.offset, self.len)
    IN  IF end.panic \/ self.offset > end.value \/ end.value > Len(buffer)
        THEN [panic |-> TRUE, bytes |-> <<>>]
        ELSE [panic |-> FALSE, bytes |-> SubSeq(buffer, self.offset + 1, end.value)]

----------------------------------------------------------------------------
(* SpecSlice: a view over a whole buffer, sliced again and again.          *)

InitSlice ==
    /\ overflow_checks \in BOOLEAN
    /\ sbuf \in {[i \in 1..n |-> 10 * i] : n \in 0..MaxBufLen}
    /\ view = AscUint8Array_new(sbuf)
    /\ panicked = FALSE
    /\ last = <<>>
    /\ usize_bytes = 4 /\ elem_ty = "u8" /\ align_ty = "u64"
    /\ LayoutIdle
    /\ BufferIdle
    /\ HostIdle
    /\ LaterIdle

\* view.slice(range); a panic ends the program
Slice ==
    /\ ~panicked
    /\ \E sb \in Bounds, eb \in Bounds :
         LET r == slice(view, sb, eb)
         IN  /\ last' = <<[pre |-> view, sb |-> sb, eb |-> eb,
                           panic |-> r.panic, view |-> r.view]>>
             /\ panicked' = r.panic
             /\ view' = IF r.panic THEN view ELSE r.view
    /\ UNCHANGED <<overflow_checks, sbuf, othersSlice>>

NextSlice == Slice

SpecSlice == InitSlice /\ [][NextSlice]_vars

----------------------------------------------------------------------------
(* Claims about slice (SpecSlice).                                         *)

\* the start a range asks for
ReqStart(sb) ==
    CASE sb.kind = "Included"  -> sb.value
      [] sb.kind = "Excluded"  -> sb.value + 1
      [] sb.kind = "Unbounded" -> 0

\* the end a range asks for on a view of length len
ReqEnd(eb, len) ==
    CASE eb.kind = "Included"  -> eb.value + 1
      [] eb.kind = "Excluded"  -> eb.value
      [] eb.kind = "Unbounded" -> len

Sliced == last # <<>>

\* C6 as stated: slice panics and returns no view whenever the requested end
\* exceeds the length of the view or precedes the requested start.
C6_Original ==
    Sliced =>
        LET c == last[1]
        IN  (\/ ReqEnd(c.eb, c.pre.len) > c.pre.len
             \/ ReqEnd(c.eb, c.pre.len) < ReqStart(c.sb)) => c.panic

\* C7 as stated: on a view reached from new by slice calls, slice(start..end)
\* with start <= end <= len succeeds and returns (buffer, offset + start,
\* end - start), whose bytes are as_bytes()[start..end] of the view sliced.
C7_Original ==
    Sliced =>
        LET c == last[1]
            s == c.sb.value
            e == c.eb.value
        IN  (c.sb.kind = "Included" /\ c.eb.kind = "Excluded" /\ s <= e /\ e <= c.pre.len) =>
                /\ ~c.panic
                /\ c.view = [offset |-> c.pre.offset + s, len |-> e - s]
                /\ ~as_bytes(sbuf, c.view).panic
                /\ as_bytes(sbuf, c.view).bytes
                     = SubSeq(as_bytes(sbuf, c.pre).bytes, s + 1, e)

----------------------------------------------------------------------------
(* BigInt over the host (src/subgraph/src/num/bigint.rs, ffi/array.rs).    *)
(*                                                                         *)
(* An array buffer is [owner, valid, bytes]: owner is the side that        *)
(* allocated it and bytes its elements (SpecBuffer has the block they are  *)
(* stored in).  The host arena may recycle or move a buffer of the host at *)
(* the next host call: a host-owned buffer is valid only until then.       *)

\* the longest byte sequence of a BigInt
MaxBigLen == 2

HostByteVals == {0, 255}

ByteSeqs == SeqsUpTo(HostByteVals, MaxBigLen)

\* "0" and "42" as UTF-16 code units
NumeralStrs == {<<48>>, <<52, 50>>}

\* a buffer the host allocated for the value it returns
HostBuffer(bytes) == [owner |-> "host", valid |-> TRUE, bytes |-> bytes]

\* AscArrayBuffer::new(bytes): a block the guest allocates and owns,
\* holding a copy of bytes
AscArrayBuffer_new(bytes) == [owner |-> "guest", valid |-> TRUE, bytes |-> bytes]

\* AscUint8Array::new (src/subgraph/src/ffi/array.rs)
HostView(buffer) == [buffer |-> buffer, offset |-> 0, len |-> Len(buffer.bytes)]

\* AscUint8Array::to_array_buffer (src/subgraph/src/ffi/array.rs): the
\* Cow is Borrowed(self.buffer) for a view of the whole buffer and
\* Owned(AscArrayBuffer::new(self.as_bytes())) for any other
to_array_buffer(self) ==
    IF self.offset = 0 /\ self.len = Len(self.buffer.bytes)
    THEN self.buffer
    ELSE AscArrayBuffer_new(
             as_bytes(self.buffer.bytes, [offset |-> self.offset, len |-> self.len]).bytes)

\* BigInt::from_signed_bytes_le
from_signed_bytes_le(bytes) == [inner |-> AscArrayBuffer_new(bytes)]

\* bytes followed by a zero byte, whatever its last byte
from_unsigned_bytes_le_always(bytes) == from_signed_bytes_le(bytes \o <<0>>)

\* bytes as they are, whatever its last byte
from_unsigned_bytes_le_plain(bytes) == from_signed_bytes_le(bytes)

\* BigInt::from_unsigned_bytes_le
from_unsigned_bytes_le(bytes) ==
    IF bytes # <<>> /\ (bytes[Len(bytes)] \div 128) % 2 # 0
    THEN LET corrected_bytes == bytes \o <<0>>
         IN  from_signed_bytes_le(corrected_bytes)
    ELSE from_signed_bytes_le(bytes)

\* the sign bit taken from the first byte
signum_first_byte(bytes) ==
    IF \A i \in 1..Len(bytes) : bytes[i] = 0 THEN 0
    ELSE IF (Head(bytes) \div 128) % 2 = 0 THEN 1 ELSE 0 - 1

\* BigInt::signum
signum(bytes) ==
    IF \A i \in 1..Len(bytes) : bytes[i] = 0 THEN 0
    ELSE LET last_byte == IF bytes = <<>> THEN 0 ELSE bytes[Len(bytes)]
         IN  IF (last_byte \div 128) % 2 = 0 THEN 1 ELSE 0 - 1

\* String::from_utf16: the chars, or an error on an unpaired surrogate
RECURSIVE from_utf16(_)
from_utf16(units) ==
    IF units = <<>> THEN [ok |-> TRUE, chars |-> <<>>]
    ELSE LET u == Head(units)
         IN  IF u < 55296 \/ u > 57343
             THEN LET rest == from_utf16(Tail(units))
                  IN  [ok |-> rest.ok, chars |-> <<u>> \o rest.chars]
             ELSE IF u <= 56319 /\ Len(units) >= 2 /\ units[2] >= 56320 /\ units[2] <= 57343
             THEN LET rest == from_utf16(Tail(Tail(units)))
                  IN  [ok |-> rest.ok,
                       chars |-> <<65536 + (u - 55296) * 1024 + (units[2] - 56320)>>
                                   \o rest.chars]
             ELSE [ok |-> FALSE, chars |-> <<>>]

\* the views the host may return over a buffer it allocated
ViewsOver(buffer) ==
    LET size == Len(buffer.bytes)
    IN  UNION {{[buffer |-> buffer, offset |-> o, len |-> n] : n \in 0..(size - o)} :
                 o \in 0..size}

\* the guest values that refer to host-owned memory
HostBacked == {k \in DOMAIN ints : ints[k].inner.owner = "host"}

\* a host call: the arena may recycle every buffer it handed out before
Invalidate(values) ==
    [k \in DOMAIN values |->
        IF values[k].inner.owner = "host"
        THEN [inner |-> [values[k].inner EXCEPT !.valid = FALSE]]
        ELSE values[k]]

\* the guest holds the value it constructed and the latest sum, which
\* replaces (and drops) the sum before it
Keep(values, r) == <<values[1], r>>

\* what reading a buffer yields: its bytes, or any bytes once it is invalid
Reads(b) == IF b.valid THEN {b.bytes} ELSE ByteSeqs

InitHost ==
    /\ usize_bytes = 4 /\ elem_ty = "u8" /\ align_ty = "u64"
    /\ ints \in {<<from_signed_bytes_le(b)>> : b \in ByteSeqs}
    /\ hlast = <<>>
    /\ fmt_out = <<>>
    /\ LayoutIdle
    /\ BufferIdle
    /\ SliceIdle
    /\ LaterIdle

\* as_host: AscUint8Array::new(&self.inner), the view handed to the host
as_host(self) == HostView(self.inner)

\* BigInt::add: as_host on both operands, the host's bigInt.plus, and
\* to_array_buffer on the view it returns.  The host reads the operands
\* (any bytes, once their buffer is invalid) and returns a view of its
\* choice over a buffer it allocates.
Add ==
    \E i \in DOMAIN ints, j \in DOMAIN ints, hb \in ByteSeqs :
    \E hv \in ViewsOver(HostBuffer(hb)) :
       LET x == as_host(ints[i])
           y == as_host(ints[j])
           inner == to_array_buffer(hv)
       IN  /\ ints' = Keep(Invalidate(ints), [inner |-> inner])
           /\ hlast' = <<[op |-> "add",
                          stale_args |-> ~x.buffer.valid \/ ~y.buffer.valid,
                          live_host |-> HostBacked,
                          returned |-> hv, result |-> inner]>>
           /\ UNCHANGED <<fmt_out, othersHost>>

\* Display::fmt (Debug::fmt calls it): the host's bigIntToString, the
\* decoding of the string it returns, then signum of self for pad_integral.
\* signum runs after the host call and reads self.inner as it is then.
Fmt ==
    \E i \in DOMAIN ints, units \in NumeralStrs :
       LET x == as_host(ints[i])
           s == from_utf16(units)
           after == Invalidate(ints)[i].inner
       IN  /\ s.ok
           /\ ints' = Invalidate(ints)
           /\ \E sb \in Reads(after) : fmt_out' = <<signum(sb) >= 0, s.chars>>
           /\ hlast' = <<[op |-> "fmt", stale_args |-> ~x.buffer.valid,
                          live_host |-> HostBacked, returned_str |-> units]>>
           /\ UNCHANGED othersHost

NextHost == Add \/ Fmt

SpecHost == InitHost /\ [][NextHost]_vars

----------------------------------------------------------------------------
(* Claims about the host discipline (SpecHost).                            *)

\* C1 as stated: whenever a host call is issued, every reference an earlier
\* host call returned has been copied into guest-owned storage: no value
\* that outlived its operation (the BigInt add returned) refers to
\* host-owned memory.
C1_Original == hlast # <<>> => hlast[1].live_host = {}

\* C2 as stated: to_array_buffer on a view (buffer, offset, len) returns a
\* freshly owned buffer whose bytes are buffer[offset .. offset + len), also
\* for a view of the whole buffer; it never shares the view's buffer.
C2_Original ==
    (hlast # <<>> /\ hlast[1].op = "add") =>
        LET hv == hlast[1].returned
            r  == hlast[1].result
        IN  /\ r.owner = "guest"
            /\ r.bytes = SubSeq(hv.buffer.bytes, hv.offset + 1, hv.offset + hv.len)

----------------------------------------------------------------------------
(* BigInt constructors and signum (src/subgraph/src/num/bigint.rs,         *)
(* src/src/num/bigint.rs).                                                 *)

\* the longest byte sequence given to a constructor
MaxBytes == 3

BigByteVals == {0, 1, 127, 128, 255}

\* the bytes of tests::primitive_conversion and tests::signum: u32::MAX,
\* 42, -1337, i32::MAX, i32::MIN
ExampleBytes ==
    { <<255, 255, 255, 255>>, <<42, 0, 0, 0>>, <<199, 250, 255, 255>>,
      <<255, 255, 255, 127>>, <<0, 0, 0, 128>> }

BigBytes == SeqsUpTo(BigByteVals, MaxBytes) \cup ExampleBytes

I32_MAX == 2147483647
I32_MIN == 0 - 2147483647 - 1

\* the types of from_primitive! (the 8-, 16- and 32-bit ones) and values of them
PrimBits(ty) ==
    CASE ty \in {"i8", "u8"}   -> 8
      [] ty \in {"i16", "u16"} -> 16
      [] ty \in {"i32", "u32"} -> 32

PrimSigned(ty) == ty \in {"i8", "i16", "i32"}

PrimVals(ty) ==
    CASE ty = "u8"  -> {0, 42, 128, 255}
      [] ty = "i8"  -> {0, 42, 127, 0 - 1, 0 - 128}
      [] ty = "u16" -> {0, 42, 32768, 65535}
      [] ty = "i16" -> {0, 0 - 1, 0 - 1337, 32767, 0 - 32768}
      [] ty = "u32" -> {0, 42, I32_MAX}
      [] ty = "i32" -> {0, 42, 0 - 1, 0 - 1337, I32_MAX, I32_MIN}

Prims ==
    UNION {{[kind |-> "prim", ty |-> ty, val |-> v, bytes |-> <<>>] : v \in PrimVals(ty)} :
             ty \in {"i8", "u8", "i16", "u16", "i32", "u32"}}

\* to_le_bytes without the most significant byte
prim_to_le_bytes_short(ty, x) ==
    [i \in 1..(PrimBits(ty) \div 8 - 1) |-> (x \div 256^(i - 1)) % 256]

\* x.to_le_bytes() of a primitive of PrimBits(ty) bits (two's complement)
prim_to_le_bytes(ty, x) ==
    [i \in 1..(PrimBits(ty) \div 8) |-> (x \div 256^(i - 1)) % 256]

\* impl From<$t> for BigInt: Self::$m(&x.to_le_bytes())
from_primitive(ty, x) ==
    IF PrimSigned(ty)
    THEN from_signed_bytes_le(prim_to_le_bytes(ty, x))
    ELSE from_unsigned_bytes_le(prim_to_le_bytes(ty, x))

\* BigInt::signum of the root crate: (last_byte as i8).signum()
signum_root(bytes) ==
    IF \A i \in 1..Len(bytes) : bytes[i] = 0 THEN 0
    ELSE LET last_byte == IF bytes = <<>> THEN 0 ELSE bytes[Len(bytes)]
             as_i8 == IF last_byte >= 128 THEN last_byte - 256 ELSE last_byte
         IN  IF as_i8 > 0 THEN 1 ELSE IF as_i8 = 0 THEN 0 ELSE 0 - 1

InitBigInt ==
    /\ big_in \in {<<[kind |-> "bytes", ty |-> "", val |-> 0, bytes |-> b]>> : b \in BigBytes}
                 \cup {<<p>> : p \in Prims}
    /\ big = <<>>
    /\ sig = <<>>
    /\ sig_root = <<>>
    /\ usize_bytes = 4 /\ elem_ty = "u8" /\ align_ty = "u64"
    /\ LayoutIdle
    /\ BufferIdle
    /\ SliceIdle
    /\ HostIdle
    /\ StringIdle
    /\ AbortIdle
    /\ LastIdle

FromUnsignedBytesLe ==
    /\ big = <<>>
    /\ big_in[1].kind = "bytes"
    /\ big' = <<[ctor |-> "unsigned", v |-> from_unsigned_bytes_le(big_in[1].bytes)]>>
    /\ UNCHANGED <<big_in, sig, sig_root, othersBigInt>>

FromSignedBytesLe ==
    /\ big = <<>>
    /\ big_in[1].kind = "bytes"
    /\ big' = <<[ctor |-> "signed", v |-> from_signed_bytes_le(big_in[1].bytes)]>>
    /\ UNCHANGED <<big_in, sig, sig_root, othersBigInt>>

FromPrimitive ==
    /\ big = <<>>
    /\ big_in[1].kind = "prim"
    /\ big' = <<[ctor |-> "from", v |-> from_primitive(big_in[1].ty, big_in[1].val)]>>
    /\ UNCHANGED <<big_in, sig, sig_root, othersBigInt>>

Signum ==
    /\ big # <<>>
    /\ sig = <<>>
    /\ sig' = <<signum(big[1].v.inner.bytes)>>
    /\ UNCHANGED <<big_in, big, sig_root, othersBigInt>>

SignumRoot ==
    /\ big # <<>>
    /\ sig_root = <<>>
    /\ sig_root' = <<signum_root(big[1].v.inner.bytes)>>
    /\ UNCHANGED <<big_in, big, sig, othersBigInt>>

NextBigInt ==
    \/ FromUnsignedBytesLe
    \/ FromSignedBytesLe
    \/ FromPrimitive
    \/ Signum
    \/ SignumRoot

SpecBigInt == InitBigInt /\ [][NextBigInt]_vars

----------------------------------------------------------------------------
(* Claims about the constructors and signum (SpecBigInt).                  *)

\* an integer of any size: its sign and the little-endian bytes of its
\* magnitude, without leading (most significant) zero bytes
RECURSIVE StripZeros(_)
StripZeros(m) ==
    IF m = <<>> THEN <<>>
    ELSE IF m[Len(m)] = 0 THEN StripZeros(SubSeq(m, 1, Len(m) - 1)) ELSE m

RECURSIVE AddOne(_)
AddOne(m) ==
    IF m = <<>> THEN <<1>>
    ELSE IF Head(m) = 255 THEN <<0>> \o AddOne(Tail(m)) ELSE <<Head(m) + 1>> \o Tail(m)

\* b read as an unsigned little-endian integer
UnsignedValue(b) == [neg |-> FALSE, mag |-> StripZeros(b)]

\* b read as a little-endian two's-complement integer
TwosComplementValue(b) ==
    IF b = <<>> \/ b[Len(b)] < 128
    THEN [neg |-> FALSE, mag |-> StripZeros(b)]
    ELSE [neg |-> TRUE, mag |-> StripZeros(AddOne([i \in 1..Len(b) |-> 255 - b[i]]))]

\* the integer v, |v| < 2^32
IntValue(v) ==
    IF v >= 0
    THEN [neg |-> FALSE, mag |-> StripZeros(to_le_bytes(v, 4))]
    ELSE [neg |-> TRUE, mag |-> AddOne(StripZeros(to_le_bytes(0 - (v + 1), 4)))]

SignOf(n) == IF n.mag = <<>> THEN 0 ELSE IF n.neg THEN 0 - 1 ELSE 1

Constructed == big # <<>>

Stored == big[1].v.inner.bytes

Arg == big_in[1]

\* C11: from_unsigned_bytes_le(b) stores b and one extra 0 byte when b is
\* non-empty and the high bit of its last byte is set, b otherwise;
\* from_signed_bytes_le(b) stores b; an N-bit unsigned primitive gives its
\* N/8 little-endian bytes, plus the zero byte only when its top bit is
\* set, an N-bit signed primitive exactly its N/8 bytes.
C11_Constructors ==
    Constructed =>
        LET b == Arg.bytes
            n == PrimBits(Arg.ty) \div 8
        IN  /\ big[1].ctor = "unsigned" =>
                Stored = IF b # <<>> /\ b[Len(b)] >= 128 THEN b \o <<0>> ELSE b
            /\ big[1].ctor = "signed" => Stored = b
            /\ (big[1].ctor = "from" /\ PrimSigned(Arg.ty)) =>
                /\ Len(Stored) = n
                /\ TwosComplementValue(Stored) = IntValue(Arg.val)
            /\ (big[1].ctor = "from" /\ ~PrimSigned(Arg.ty)) =>
                /\ Len(Stored) = IF Arg.val \div 2^(PrimBits(Arg.ty) - 2) >= 2 THEN n + 1 ELSE n
                /\ UnsignedValue(SubSeq(Stored, 1, n)) = IntValue(Arg.val)
                /\ Len(Stored) = n + 1 => Stored[n + 1] = 0
            /\ (big[1].ctor = "unsigned" /\ b = <<255, 255, 255, 255>>) =>
                Stored = <<255, 255, 255, 255, 0>>
            /\ (big[1].ctor = "from" /\ Arg.ty = "u32" /\ Arg.val = 42) =>
                Stored = <<42, 0, 0, 0>>
            /\ (big[1].ctor = "from" /\ Arg.ty = "i32" /\ Arg.val = 0 - 1) =>
                Stored = <<255, 255, 255, 255>>

C11_Witness ==
    /\ Constructed
    /\ big[1].ctor = "unsigned"
    /\ Arg.bytes = <<255, 255, 255, 255>>
    /\ Stored = <<255, 255, 255, 255, 0>>

C11_WitnessPrim ==
    Constructed /\ big[1].ctor = "from" /\ Arg.ty = "u16" /\ Arg.val = 65535
        /\ Stored = <<255, 255, 0>>

NonZero(b) == \E i \in 1..Len(b) : b[i] # 0

\* C12: for every non-empty b, signum of the BigInt storing b is the sign of
\* b read as a little-endian two's-complement integer: 0 when all bytes are
\* zero, otherwise -1 when the high bit of the last byte is set and +1 when
\* it is clear; 0 gives 0, 42 gives +1, -1337 gives -1, i32::MAX gives +1
\* and i32::MIN gives -1.
C12_Signum ==
    (Constructed /\ sig # <<>> /\ Stored # <<>>) =>
        /\ sig[1] = SignOf(TwosComplementValue(Stored))
        /\ sig[1] = (IF ~NonZero(Stored) THEN 0
                     ELSE IF Stored[Len(Stored)] >= 128 THEN 0 - 1 ELSE 1)
        /\ (big[1].ctor = "from" /\ Arg.ty = "i32") =>
              sig[1] = (CASE Arg.val = 0 -> 0
                          [] Arg.val = 42 -> 1
                          [] Arg.val = 0 - 1337 -> 0 - 1
                          [] Arg.val = I32_MAX -> 1
                          [] Arg.val = I32_MIN -> 0 - 1
                          [] OTHER -> sig[1])

C12_Witness ==
    /\ Constructed /\ big[1].ctor = "from" /\ Arg.ty = "i32" /\ Arg.val = 0 - 1337
    /\ Stored = <<199, 250, 255, 255>>
    /\ sig = <<0 - 1>>

\* the constructor took its argument as unsigned
FromUnsigned ==
    Constructed /\ (big[1].ctor = "unsigned" \/ (big[1].ctor = "from" /\ ~PrimSigned(Arg.ty)))

\* the unsigned bytes the constructor was given
UnsignedArg == IF Arg.kind = "bytes" THEN Arg.bytes ELSE prim_to_le_bytes(Arg.ty, Arg.val)

\* C13: for every unsigned little-endian b, from_unsigned_bytes_le(b)
\* has signum +1 when some byte of b is non-zero and 0 when all are zero,
\* never -1, and its stored bytes read as a two's-complement integer denote
\* the number b denotes as an unsigned integer; ff ff ff ff gives +1.
C13_UnsignedSign ==
    FromUnsigned =>
        /\ TwosComplementValue(Stored) = UnsignedValue(UnsignedArg)
        /\ sig # <<>> =>
              /\ sig[1] = (IF NonZero(UnsignedArg) THEN 1 ELSE 0)
              /\ UnsignedArg = <<255, 255, 255, 255>> => sig[1] = 1

C13_Witness ==
    /\ FromUnsigned
    /\ UnsignedArg = <<255, 255, 255, 255>>
    /\ sig = <<1>>

\* C14 as stated: the signum that casts the last byte to i8 (root crate) and
\* the signum that tests its high bit return the same result for every
\* buffer that holds a non-zero value.
C14_Original ==
    (Constructed /\ sig # <<>> /\ sig_root # <<>> /\ NonZero(Stored)) => sig[1] = sig_root[1]

----------------------------------------------------------------------------
(* AscStr: decoding a string (src/src/ffi/string.rs).                      *)

\* the longest sequence of code units of a string the host hands over
MaxUnits == 3

\* 'H', a high surrogate, a low surrogate (together the crab, U+1F980)
UnitVals == {72, 55358, 56704}

REPLACEMENT_CHARACTER == 65533

IsHigh(u) == u >= 55296 /\ u <= 56319
IsLow(u) == u >= 56320 /\ u <= 57343

\* AscString::new, start to end: the block it returns (<<>> when it panics)
AscString_new(str) ==
    LET units  == encode_utf16(str)
        len    == Len(units)
        layout == string_layout(len)
        block  == WriteBytes(alloc_buffer(layout), FieldOffset(StringInner(len), 1),
                             to_le_bytes(len, SizeOf("usize")))
    IN  IF ~layout.ok THEN <<>>
        ELSE WriteBytes(block, FieldOffset(StringInner(len), 2), SliceBytes("u16", units))

\* a string in the layout of AssemblyScript, as the host hands it over
HostString(units) ==
    LET len == Len(units)
        block == WriteBytes(alloc_buffer(string_layout(len)), 0,
                            to_le_bytes(len, SizeOf("usize")))
    IN  WriteBytes(block, SizeOf("usize"), SliceBytes("u16", units))

\* AscString::as_asc_str: &self.inner.len cast to *const AscStr
as_asc_str(len) == FieldOffset(StringInner(len), 1)

\* the code points without the last one
as_code_points_short(mem, addr) ==
    LET len == ReadValue(mem, addr + FieldOffset(StringInner(0), 1), SizeOf("usize"))
    IN  [i \in 1..(len - 1) |->
            ReadValue(mem, addr + FieldOffset(StringInner(0), 2) + (i - 1) * SizeOf("u16"),
                      SizeOf("u16"))]

\* AscStr::as_code_points: slice::from_raw_parts(&self.inner.buf, self.inner.len)
as_code_points(mem, addr) ==
    LET len == ReadValue(mem, addr + FieldOffset(StringInner(0), 1), SizeOf("usize"))
    IN  [i \in 1..len |->
            ReadValue(mem, addr + FieldOffset(StringInner(0), 2) + (i - 1) * SizeOf("u16"),
                      SizeOf("u16"))]

\* every unpaired surrogate dropped
RECURSIVE from_utf16_lossy_skip(_)
from_utf16_lossy_skip(units) ==
    IF units = <<>> THEN <<>>
    ELSE LET u == Head(units)
         IN  IF ~IsHigh(u) /\ ~IsLow(u) THEN <<u>> \o from_utf16_lossy_skip(Tail(units))
             ELSE IF IsHigh(u) /\ Len(units) >= 2 /\ IsLow(units[2])
             THEN <<65536 + (u - 55296) * 1024 + (units[2] - 56320)>>
                      \o from_utf16_lossy_skip(Tail(Tail(units)))
             ELSE from_utf16_lossy_skip(Tail(units))

\* String::from_utf16_lossy: decode_utf16, each error replaced by U+FFFD
RECURSIVE from_utf16_lossy(_)
from_utf16_lossy(units) ==
    IF units = <<>> THEN <<>>
    ELSE LET u == Head(units)
         IN  IF ~IsHigh(u) /\ ~IsLow(u) THEN <<u>> \o from_utf16_lossy(Tail(units))
             ELSE IF IsHigh(u) /\ Len(units) >= 2 /\ IsLow(units[2])
             THEN <<65536 + (u - 55296) * 1024 + (units[2] - 56320)>>
                      \o from_utf16_lossy(Tail(Tail(units)))
             ELSE <<REPLACEMENT_CHARACTER>> \o from_utf16_lossy(Tail(units))

\* AscStr::to_string
to_string(mem, addr) == from_utf16(as_code_points(mem, addr))

\* AscStr::to_string_lossy
to_string_lossy(mem, addr) == from_utf16_lossy(as_code_points(mem, addr))

\* the units the string of str_in holds
StringLen == IF str_in[1].kind = "local" THEN Len(encode_utf16(str_in[1].seq))
                                         ELSE Len(str_in[1].seq)

InitString ==
    /\ usize_bytes \in {4, 8}
    /\ elem_ty = "u16" /\ align_ty = "u16"
    /\ str_in \in {<<[kind |-> "local", seq |-> c]>> : c \in SeqsUpTo(Chars, MaxLen)}
                 \cup {<<[kind |-> "host", seq |-> u]>> : u \in SeqsUpTo(UnitVals, MaxUnits)}
    /\ str_mem = IF str_in[1].kind = "local" THEN AscString_new(str_in[1].seq)
                                              ELSE HostString(str_in[1].seq)
    /\ strict_res = <<>>
    /\ lossy_res = <<>>
    /\ LayoutIdle
    /\ BufferIdle
    /\ SliceIdle
    /\ HostIdle
    /\ BigIntIdle
    /\ AbortIdle
    /\ LastIdle

\* s.to_string(), s an &AscStr (for an AscString through Deref: as_asc_str)
AscStr_to_string ==
    /\ strict_res = <<>>
    /\ strict_res' = <<to_string(str_mem, as_asc_str(StringLen))>>
    /\ UNCHANGED <<varsTarget, str_in, str_mem, lossy_res, othersString>>

\* s.to_string_lossy()
AscStr_to_string_lossy ==
    /\ lossy_res = <<>>
    /\ lossy_res' = <<to_string_lossy(str_mem, as_asc_str(StringLen))>>
    /\ UNCHANGED <<varsTarget, str_in, str_mem, strict_res, othersString>>

NextString == AscStr_to_string \/ AscStr_to_string_lossy

SpecString == InitString /\ [][NextString]_vars

----------------------------------------------------------------------------
(* Claims about strings (SpecString, SpecBuffer).                          *)

\* the code units the string of str_in holds
HeldUnits == IF str_in[1].kind = "local" THEN encode_utf16(str_in[1].seq) ELSE str_in[1].seq

\* unit i of u is a surrogate that belongs to a pair
InPair(u, i) ==
    \/ IsHigh(u[i]) /\ i < Len(u) /\ IsLow(u[i + 1])
    \/ IsLow(u[i]) /\ i > 1 /\ IsHigh(u[i - 1])

\* unit i of u is a surrogate that belongs to no pair
InvalidUnit(u, i) == (IsHigh(u[i]) \/ IsLow(u[i])) /\ ~InPair(u, i)

ValidUtf16(u) == \A i \in 1..Len(u) : ~InvalidUnit(u, i)

\* the chars of u, position by position, U+FFFD for each invalid unit
Decoded(u) ==
    Flatten([i \in 1..Len(u) |->
        IF InvalidUnit(u, i) THEN <<REPLACEMENT_CHARACTER>>
        ELSE IF IsHigh(u[i]) THEN <<65536 + (u[i] - 55296) * 1024 + (u[i + 1] - 56320)>>
        ELSE IF IsLow(u[i]) THEN <<>>
        ELSE <<u[i]>>])

\* C15: for every local string s, AscString::new(s).to_string() succeeds and
\* returns exactly s, also when s has characters outside the 16-bit range.
C15_RoundTrip ==
    (str_in # <<>> /\ str_in[1].kind = "local" /\ strict_res # <<>>) =>
        /\ strict_res[1].ok
        /\ strict_res[1].chars = str_in[1].seq

C15_Witness ==
    /\ str_in = <<[kind |-> "local", seq |-> <<72, 129408>>]>>
    /\ strict_res = <<[ok |-> TRUE, chars |-> <<72, 129408>>]>>

\* the number of code units of char c
UnitsOf(c) == IF c < 65536 THEN 1 ELSE 2

\* the number of code units of str: UnitsOf(c) summed over its chars
UnitCount(str) == Len(str) + Cardinality({i \in 1..Len(str) : UnitsOf(str[i]) = 2})

\* the units in the payload of the string that AscString::new built
StoredUnits ==
    [i \in 1..box_len |->
        ReadValue(heap, FieldOffset(StringInner(box_len), 2) + (i - 1) * SizeOf("u16"),
                  SizeOf("u16"))]

\* C16: AscString::new(s) stores in its length field the number of UTF-16
\* code units of s (one per char in the 16-bit range, two forming a
\* surrogate pair per char outside it), the payload has exactly that many
\* units, and they are the UTF-16 encoding of s in order.
C16_StringUnits ==
    (kind = "string" /\ pc = "done") =>
        /\ ReadValue(heap, 0, SizeOf("usize")) = UnitCount(input)
        /\ box_len = UnitCount(input)
        /\ \A i \in 1..Len(input) :
              LET at == UnitCount(SubSeq(input, 1, i - 1)) + 1
              IN  IF input[i] < 65536
                  THEN StoredUnits[at] = input[i]
                  ELSE /\ IsHigh(StoredUnits[at])
                       /\ IsLow(StoredUnits[at + 1])
                       /\ 65536 + (StoredUnits[at] - 55296) * 1024
                             + (StoredUnits[at + 1] - 56320) = input[i]
        /\ input = <<72, 129408>> => StoredUnits = <<72, 55358, 56704>>

C16_Witness ==
    /\ kind = "string" /\ pc = "done"
    /\ input = <<72, 129408>>
    /\ box_len = 3
    /\ StoredUnits = <<72, 55358, 56704>>

\* C17: to_string returns an error value, and leaves the string as it is,
\* when the units are not valid UTF-16; to_string_lossy always returns a
\* string, U+FFFD in place of each invalid unit, equal to the strict
\* result whenever strict decoding succeeds.
C17_Decoding ==
    str_in # <<>> =>
        /\ str_mem = (IF str_in[1].kind = "local" THEN AscString_new(str_in[1].seq)
                                                  ELSE HostString(str_in[1].seq))
        /\ strict_res # <<>> =>
              /\ strict_res[1].ok = ValidUtf16(HeldUnits)
              /\ strict_res[1].ok => strict_res[1].chars = Decoded(HeldUnits)
        /\ lossy_res # <<>> =>
              /\ lossy_res[1] = Decoded(HeldUnits)
              /\ Cardinality({i \in 1..Len(lossy_res[1]) : lossy_res[1][i] = REPLACEMENT_CHARACTER})
                    = Cardinality({i \in 1..Len(HeldUnits) : InvalidUnit(HeldUnits, i)})
        /\ (strict_res # <<>> /\ lossy_res # <<>> /\ strict_res[1].ok) =>
              lossy_res[1] = strict_res[1].chars

C17_Witness ==
    /\ str_in = <<[kind |-> "host", seq |-> <<72, 56704>>]>>
    /\ strict_res # <<>> /\ ~strict_res[1].ok
    /\ lossy_res = <<(<<72, REPLACEMENT_CHARACTER>>)>>

----------------------------------------------------------------------------
(* The abort bridge (src/subgraph/src/abort.rs, lib.rs).                   *)

\* the most guest steps, and the most host calls, of a run
MaxSteps == 2

\* panic messages: "b", "He" with an acute accent
Messages == {<<98>>, <<72, 233>>}

\* file names, lines and columns of a Location
Files == {<<97>>, <<108, 105>>}
Lines == {1, 7}
Columns == {5, 9}

\* Option<&Location>: <<>> is None
Locations ==
    {<<>>} \cup {<<[file |-> f, line |-> l, column |-> c]>> : f \in Files, l \in Lines, c \in Columns}

\* PanicInfo: the payload is a &str, a String or any other value
PanicInfos ==
    {[payload |-> k, message |-> m, location |-> loc] :
        k \in {"&str", "String", "other"}, m \in Messages, loc \in Locations}

\* Display of a Location: file:line:column (one digit each here)
location_to_string(loc) == loc.file \o <<58, 48 + loc.line, 58, 48 + loc.column>>

\* info.to_string() of a payload that is no string: "panicked at " and the
\* location, without the payload
info_to_string(info) ==
    <<112, 97, 110, 105, 99, 107, 101, 100, 32, 97, 116, 32>>
        \o (IF info.location = <<>> THEN <<>> ELSE location_to_string(info.location[1]))

\* the hook with column 0 in every call
panic_hook_no_column(info) ==
    LET message == IF info.payload \in {"&str", "String"} THEN info.message
                   ELSE info_to_string(info)
        location == IF info.payload \in {"&str", "String"} THEN info.location ELSE <<>>
    IN  [message |-> AscString_new(message),
         file |-> IF location # <<>> THEN <<AscString_new(location[1].file)>> ELSE <<>>,
         line |-> IF location # <<>> THEN location[1].line ELSE 0,
         column |-> 0]

\* the closure of set_panic_hook: the arguments it calls abort with
panic_hook(info) ==
    LET message == IF info.payload \in {"&str", "String"} THEN info.message
                   ELSE info_to_string(info)
        location == IF info.payload \in {"&str", "String"} THEN info.location ELSE <<>>
    IN  [message |-> AscString_new(message),
         file |-> IF location # <<>> THEN <<AscString_new(location[1].file)>> ELSE <<>>,
         line |-> IF location # <<>> THEN location[1].line ELSE 0,
         column |-> IF location # <<>> THEN location[1].column ELSE 0]

\* an abort that returns to its caller
abort_returns == "running"

\* fn abort(...) -> !: the host ends the instance, the call never returns
abort == "aborted"

InitAbort ==
    /\ hook_set = FALSE
    /\ gstate = "loaded"
    /\ panic_info = <<>>
    /\ abort_calls = <<>>
    /\ gsteps = 0
    /\ hcalls = 0
    /\ usize_bytes = 4 /\ elem_ty = "u16" /\ align_ty = "u16"
    /\ LayoutIdle
    /\ BufferIdle
    /\ SliceIdle
    /\ HostIdle
    /\ BigIntIdle
    /\ StringIdle
    /\ LastIdle

\* exports::start: abort::set_panic_hook(); logger::init()
Start ==
    /\ gstate = "loaded"
    /\ hook_set' = TRUE
    /\ gstate' = "running"
    /\ UNCHANGED <<panic_info, abort_calls, gsteps, hcalls, othersAbort>>

\* a step of a handler of the guest
GuestStep ==
    /\ gstate = "running"
    /\ gsteps < MaxSteps
    /\ gsteps' = gsteps + 1
    /\ UNCHANGED <<hook_set, gstate, panic_info, abort_calls, hcalls, othersAbort>>

\* a call of a host function other than abort: it returns
HostCall ==
    /\ gstate = "running"
    /\ hcalls < MaxSteps
    /\ hcalls' = hcalls + 1
    /\ UNCHANGED <<hook_set, gstate, panic_info, abort_calls, gsteps, othersAbort>>

\* panic!, a failed assert! or expect(): the panic runtime builds the
\* PanicInfo and calls the hook
Panic ==
    /\ gstate = "running"
    /\ \E info \in PanicInfos : panic_info' = <<info>>
    /\ gstate' = "panicking"
    /\ UNCHANGED <<hook_set, abort_calls, gsteps, hcalls, othersAbort>>

\* the hook runs up to its call of abort, which has the last word on the
\* instance
HookRuns ==
    /\ gstate = "panicking"
    /\ hook_set
    /\ gstate' = abort

\* the hook set by set_panic_hook runs and calls abort
PanicHook ==
    /\ HookRuns
    /\ abort_calls' = Append(abort_calls, panic_hook(panic_info[1]))
    /\ UNCHANGED <<hook_set, panic_info, gsteps, hcalls, othersAbort>>

NextAbort == Start \/ GuestStep \/ HostCall \/ Panic \/ PanicHook

SpecAbort == InitAbort /\ [][NextAbort]_vars

\* the panic runtime calls the hook as part of the panic: it is not delayed
\* for ever
SpecAbortFair == SpecAbort /\ WF_gstate(HookRuns)

----------------------------------------------------------------------------
(* Claims about the abort bridge (SpecAbort, SpecAbortFair).               *)

AbortCalled == abort_calls # <<>>

\* the arguments of the call of abort, and the fault it was called for
AbortArgs == abort_calls[1]
Fault == panic_info[1]

\* the local string a foreign string given to abort decodes to
Foreign(block) == to_string(block, 0)

\* abort was given the location loc
LocationPassed(loc) ==
    /\ AbortArgs.file # <<>>
    /\ Foreign(AbortArgs.file[1]) = [ok |-> TRUE, chars |-> loc.file]
    /\ AbortArgs.line = loc.line
    /\ AbortArgs.column = loc.column

\* abort was given no location
NoLocationPassed == AbortArgs.file = <<>> /\ AbortArgs.line = 0 /\ AbortArgs.column = 0

\* C18 as stated: abort is called with the message of the fault as a foreign
\* string and, whenever the fault carries a location, with its file name,
\* line and column; the file is absent and line and column are 0 only when
\* no location is available.
C18_Original ==
    AbortCalled =>
        /\ Fault.payload \in {"&str", "String"} =>
              Foreign(AbortArgs.message) = [ok |-> TRUE, chars |-> Fault.message]
        /\ Fault.location # <<>> => LocationPassed(Fault.location[1])
        /\ Fault.location = <<>> => NoLocationPassed

\* C18, amended: when the payload of the fault is a &str or a String, abort
\* is called with that message as a foreign string and with the file name,
\* line and column of the location if there is one (no file, line 0 and
\* column 0 if there is none); for any other payload the message is the
\* Display text of the panic info, which holds the location, and abort is
\* called with no file, line 0 and column 0 even when a location is
\* available.
C18_AbortArguments ==
    AbortCalled =>
        /\ Fault.payload \in {"&str", "String"} =>
              /\ Foreign(AbortArgs.message) = [ok |-> TRUE, chars |-> Fault.message]
              /\ Fault.location # <<>> => LocationPassed(Fault.location[1])
              /\ Fault.location = <<>> => NoLocationPassed
        /\ Fault.payload = "other" =>
              /\ NoLocationPassed
              /\ Foreign(AbortArgs.message).ok
              /\ Fault.location # <<>> =>
                    LET text == Foreign(AbortArgs.message).chars
                        loc  == location_to_string(Fault.location[1])
                    IN  \E k \in 0..(Len(text) - Len(loc)) :
                            SubSeq(text, k + 1, k + Len(loc)) = loc

C18_Witness ==
    /\ AbortCalled
    /\ Fault.payload = "&str" /\ Fault.location # <<>>
    /\ LocationPassed(Fault.location[1])
    /\ AbortArgs.line = 7 /\ AbortArgs.column = 9

C18_WitnessOther ==
    AbortCalled /\ Fault.payload = "other" /\ Fault.location # <<>> /\ NoLocationPassed

\* C19: every fault raised after start has run results in exactly one call
\* of abort, and after that call no guest step and no host call happens.
C19_AbortOnce ==
    /\ [](Len(abort_calls) <= 1)
    /\ [][abort_calls = <<>>]_vars
    /\ (gstate = "panicking") ~> (gstate = "aborted" /\ Len(abort_calls) = 1)

C19_Witness ==
    gstate = "aborted" /\ Len(abort_calls) = 1 /\ gsteps > 0 /\ hcalls > 0

----------------------------------------------------------------------------
(* Claims about a layout that overflows (SpecBuffer).                      *)

\* the bytes the block of the input needs: the header, the payload and the
\* padding to the alignment of the block
BlockBytes ==
    IF kind = "string"
    THEN RoundUp(SizeOf("usize") + Len(Units) * SizeOf("u16"), AlignOf("usize"))
    ELSE RoundUp(RoundUp(SizeOf("usize"), BlockAlign(elem_ty, align_ty))
                     + Len(input) * SizeOf(elem_ty),
                 BlockAlign(elem_ty, align_ty))

\* the layout of the input overflows the addressable space
LayoutOverflows == kind \in {"buffer", "string"} /\ pc # "off" /\ BlockBytes > ISIZE_MAX

NothingAllocated ==
    /\ heap = <<>> /\ heap_layout = LayoutError
    /\ box_len = 0 /\ payload_view = "none"
    /\ copy_ops = 0 /\ wr_off = NoAddr
    /\ borrowed = NoAddr /\ owned2 = <<>>

\* C20: when the layout for the requested length overflows the addressable
\* space, the construction of a buffer or of a string ends in a panic
\* before any allocation and any write; it returns nothing.
C20_LayoutOverflow ==
    /\ [](LayoutOverflows => (pc \in {"start", "panicked"} /\ NothingAllocated))
    /\ [][(LayoutOverflows /\ pc = "start") => pc' = "panicked"]_vars
    /\ [](pc = "panicked" => LayoutOverflows)

C20_Witness == LayoutOverflows /\ kind = "buffer" /\ pc = "panicked" /\ NothingAllocated

C20_WitnessString == LayoutOverflows /\ kind = "string" /\ pc = "panicked" /\ NothingAllocated

----------------------------------------------------------------------------
(* SpecAlloc: the exported memory.allocate (lib.rs, exports::alloc).        *)

\* const ALIGN: usize = mem::size_of::<u64>()
ALIGN == SizeOf("u64")

NullPtr == [null |-> TRUE, size |-> 0, align |-> 1]

\* alloc::alloc: a block of the layout, or null when the allocator has
\* less than layout.size bytes left
alloc_alloc(layout, free) ==
    IF layout.size > free THEN NullPtr
    ELSE [null |-> FALSE, size |-> layout.size, align |-> layout.align]

\* exports::alloc
alloc(size, free) ==
    LET layout == from_size_align(ALIGN, size)
    IN  IF ~layout.ok THEN NullPtr ELSE alloc_alloc(layout, free)

InitAlloc ==
    /\ alloc_size \in 0..USIZE_MAX
    /\ alloc_heap \in {0, USIZE_MAX}
    /\ alloc_ret = <<>>
    /\ IdleButAlloc

MemoryAllocate ==
    /\ alloc_ret = <<>>
    /\ alloc_ret' = <<alloc(alloc_size, alloc_heap)>>
    /\ UNCHANGED <<alloc_size, alloc_heap, othersAlloc>>

NextAlloc == MemoryAllocate

SpecAlloc == InitAlloc /\ [][NextAlloc]_vars

----------------------------------------------------------------------------
(* C21: memory.allocate returns at least n bytes aligned to 8.              *)

\* n can be padded to a multiple of ALIGN inside the address space
Paddable(n) == n <= ISIZE_MAX - (ALIGN - 1)

\* C21: memory.allocate(n) returns a block of at least n bytes aligned to 8
\* for every n, and returns null only when n cannot be padded to that
\* alignment without overflowing the address space (or, in this model,
\* when the allocator itself has no memory left).
C21_Original ==
    alloc_ret # <<>> =>
        LET r == alloc_ret[1]
        IN  /\ ~r.null => (r.size >= alloc_size /\ r.align % ALIGN = 0)
            /\ (r.null /\ alloc_heap >= RoundUp(alloc_size, ALIGN)) => ~Paddable(alloc_size)

----------------------------------------------------------------------------
(* C22: the length of the stored bytes, and the stored zero.                *)

AllZero(b) == \A i \in 1..Len(b) : b[i] = 0

\* the argument of the constructor denotes the integer zero
ArgIsZero == IF Arg.kind = "prim" THEN Arg.val = 0 ELSE AllZero(Arg.bytes)

\* C22 as stated: every BigInt produced by the public constructors stores
\* at least one byte, and zero is stored as an all-zero sequence of at
\* least one byte.
C22_Original ==
    Constructed =>
        /\ Len(Stored) >= 1
        /\ ArgIsZero => AllZero(Stored)

\* C22: a BigInt made from a primitive stores at least one byte (the
\* size of the primitive, or one more), and so does one made from a
\* non-empty byte sequence; from_signed_bytes_le and
\* from_unsigned_bytes_le of the empty sequence store no byte at all.  Zero
\* is stored as an all-zero sequence: of the size of the primitive, or of
\* the length of the bytes given, which may be 0.
C22_StoredLength ==
    Constructed =>
        /\ Arg.kind = "prim" =>
              Len(Stored) \in {PrimBits(Arg.ty) \div 8, PrimBits(Arg.ty) \div 8 + 1}
        /\ (Arg.kind = "prim" \/ Arg.bytes # <<>>) => Len(Stored) >= 1
        /\ (Arg.kind = "bytes" /\ Arg.bytes = <<>>) => Stored = <<>>
        /\ ArgIsZero =>
              /\ AllZero(Stored)
              /\ Len(Stored) = IF Arg.kind = "prim" THEN PrimBits(Arg.ty) \div 8
                               ELSE Len(Arg.bytes)

\* zero from a primitive is stored in all the bytes of the primitive
C22_Witness ==
    /\ Constructed
    /\ Arg.kind = "prim" /\ Arg.ty = "u8" /\ Arg.val = 0
    /\ Stored = <<0>>

\* the empty sequence is stored as it is
C22_WitnessEmpty ==
    /\ Constructed
    /\ big[1].ctor = "unsigned"
    /\ Arg.bytes = <<>>
    /\ Stored = <<>>

----------------------------------------------------------------------------
(* SpecFmt: Display and Debug for BigInt over a host that returns the      *)
(* decimal numeral of its argument (src/subgraph/src/num/bigint.rs).       *)

\* the widest field of a format string
MaxWidth == 8

\* '-', '+', '0', ' ', '^', '.'
MINUS == 45
PLUS == 43
ZERO == 48
SPACE == 32

FillChars == {SPACE, 94, 46}

\* the integers formatted: those of tests::to_string, and 0, -1, 7
FmtVals == {0, 7, 42, 0 - 1, 0 - 1337}

\* the decimal digits of n >= 0
RECURSIVE Digits(_)
Digits(n) == IF n < 10 THEN <<ZERO + n>> ELSE Digits(n \div 10) \o <<ZERO + (n % 10)>>

\* the decimal numeral of v
Numeral(v) == IF v < 0 THEN <<MINUS>> \o Digits(0 - v) ELSE Digits(v)

\* the integer the host reads from little-endian two's-complement bytes
HostValue(bytes) ==
    LET n == Len(bytes)
        RECURSIVE Low(_)
        Low(i) == IF i = 0 THEN 0 ELSE Low(i - 1) + bytes[i] * 256^(i - 1)
    IN  IF n = 0 THEN 0
        ELSE Low(n - 1) + (IF bytes[n] >= 128 THEN bytes[n] - 256 ELSE bytes[n]) * 256^(n - 1)

\* the host's typeConversion.bigIntToString: the numeral as a string of
\* UTF-16 code units
bigIntToString(x) ==
    Numeral(HostValue(as_bytes(x.buffer.bytes, [offset |-> x.offset, len |-> x.len]).bytes))

Repeat(c, n) == [i \in 1..n |-> c]

\* Formatter::padding: the fill written before and after
padding(f, pad, default) ==
    LET align == IF f.align = "unknown" THEN default ELSE f.align
    IN  CASE align = "left"   -> [pre |-> Repeat(f.fill, 0), post |-> Repeat(f.fill, pad)]
          [] align = "right"  -> [pre |-> Repeat(f.fill, pad), post |-> Repeat(f.fill, 0)]
          [] align = "center" -> [pre |-> Repeat(f.fill, pad \div 2),
                                  post |-> Repeat(f.fill, (pad + 1) \div 2)]

\* Formatter::pad_integral(is_nonnegative, prefix, buf)
pad_integral(f, is_nonnegative, prefix, buf) ==
    LET sign == IF ~is_nonnegative THEN <<MINUS>>
                ELSE IF f.sign_plus THEN <<PLUS>> ELSE <<>>
        pre == IF f.alternate THEN prefix ELSE <<>>
        width == Len(buf) + Len(sign) + Len(pre)
    IN  IF f.width = <<>> \/ width >= f.width[1]
        THEN sign \o pre \o buf
        ELSE IF f.sign_aware_zero_pad
        THEN LET p == padding([f EXCEPT !.fill = ZERO, !.align = "right"],
                              f.width[1] - width, "right")
             IN  sign \o pre \o p.pre \o buf \o p.post
        ELSE LET p == padding(f, f.width[1] - width, "right")
             IN  p.pre \o sign \o pre \o buf \o p.post

Formatters ==
    [width : {<<>>} \cup {<<w>> : w \in 1..MaxWidth}, fill : FillChars,
     align : {"unknown", "left", "right", "center"},
     sign_plus : BOOLEAN, sign_aware_zero_pad : BOOLEAN, alternate : BOOLEAN]

\* Display::fmt
Display_fmt(self, f) ==
    LET x == as_host(self)
        asc_str == bigIntToString(x)
        s == from_utf16(asc_str)
    IN  pad_integral(f, signum(self.inner.bytes) >= 0, <<>>, s.chars)

InitFmt ==
    /\ fmt_arg \in {<<[v |-> from_primitive("i32", n), f |-> f]>> :
                       n \in FmtVals, f \in Formatters}
    /\ fmt_text = <<>>
    /\ IdleButFmt

\* format!("{}", x)
DisplayFmt ==
    /\ fmt_text = <<>>
    /\ fmt_text' = <<[by |-> "Display", text |-> Display_fmt(fmt_arg[1].v, fmt_arg[1].f)]>>
    /\ UNCHANGED <<fmt_arg, othersFmt>>

\* format!("{:?}", x): Debug::fmt is Display::fmt(self, f)
DebugFmt ==
    /\ fmt_text = <<>>
    /\ fmt_text' = <<[by |-> "Debug", text |-> Display_fmt(fmt_arg[1].v, fmt_arg[1].f)]>>
    /\ UNCHANGED <<fmt_arg, othersFmt>>

NextFmt == DisplayFmt \/ DebugFmt

SpecFmt == InitFmt /\ [][NextFmt]_vars

----------------------------------------------------------------------------
(* C23: the text Display and Debug write.                                  *)

Formatted == fmt_text # <<>>

FmtValue == HostValue(fmt_arg[1].v.inner.bytes)

CountOf(c, t) == Cardinality({i \in 1..Len(t) : t[i] = c})

\* C23 as stated: over a host that returns the decimal numeral of its
\* argument, Display and Debug write that numeral, with exactly one '-'
\* in front when the value is negative and none otherwise ("42",
\* "-1337"), and any width and fill applied around it.
C23_Original ==
    Formatted =>
        LET f == fmt_arg[1].f
            t == fmt_text[1].text
            num == Numeral(FmtValue)
        IN  /\ CountOf(MINUS, t) = IF FmtValue < 0 THEN 1 ELSE 0
            /\ (~f.sign_plus /\ ~f.sign_aware_zero_pad) =>
                  \E a \in 0..MaxWidth, b \in 0..MaxWidth :
                     /\ t = Repeat(f.fill, a) \o num \o Repeat(f.fill, b)
                     /\ a + b = IF f.width = <<>> \/ f.width[1] <= Len(num) THEN 0
                                ELSE f.width[1] - Len(num)

----------------------------------------------------------------------------
(* SpecLogger: Logger::log (src/src/logger.rs).                            *)

\* the records logged in one run
MaxRecords == 2

ERROR == 1
WARNING == 2
INFO == 3
DEBUG == 4

\* log::Level
Levels == {"Error", "Warn", "Info", "Debug", "Trace"}

\* record.args().to_string(): "b", "He" with an acute accent
LogTexts == {<<98>>, <<72, 233>>}

Records == [level : Levels, args : LogTexts]

\* the match that keeps the discriminant of log::Level (Trace = 5)
record_level_plain(level) ==
    CASE level = "Error" -> ERROR
      [] level = "Warn"  -> WARNING
      [] level = "Info"  -> INFO
      [] level = "Debug" -> DEBUG
      [] level = "Trace" -> DEBUG + 1

\* the match of Logger::log on record.level()
record_level(level) ==
    CASE level = "Error" -> ERROR
      [] level = "Warn"  -> WARNING
      [] level = "Info"  -> INFO
      [] level \in {"Debug", "Trace"} -> DEBUG

\* Logger::log: the arguments of its call of sys::log::log
Logger_log(record) ==
    LET level == record_level(record.level)
        message == AscString_new(record.args)
    IN  [level |-> level, message |-> message]

InitLogger ==
    /\ logged = <<>>
    /\ log_calls = <<>>
    /\ IdleButLogger

\* Log::log(&LOGGER, record)
Log ==
    /\ Len(logged) < MaxRecords
    /\ \E record \in Records :
          /\ logged' = Append(logged, record)
          /\ log_calls' = Append(log_calls, Logger_log(record))
    /\ UNCHANGED othersLogger

NextLogger == Log

SpecLogger == InitLogger /\ [][NextLogger]_vars

----------------------------------------------------------------------------
(* C24: the calls of the host's log entry point.                           *)

\* the level the host interface assigns to a record
HostLevel(level) ==
    CASE level = "Error" -> 1
      [] level = "Warn"  -> 2
      [] level = "Info"  -> 3
      [] level = "Debug" -> 4
      [] level = "Trace" -> 4

\* C24: every call of the host's log passes a level in {1, 2, 3, 4}: 1 for
\* an error record, 2 for a warning, 3 for info, 4 for debug and for trace,
\* with the text of the record as a foreign string; each record logged
\* makes exactly one call.
C24_LogCalls ==
    /\ [](/\ Len(log_calls) = Len(logged)
          /\ \A i \in 1..Len(log_calls) :
                /\ log_calls[i].level \in {1, 2, 3, 4}
                /\ log_calls[i].level = HostLevel(logged[i].level)
                /\ Foreign(log_calls[i].message) = [ok |-> TRUE, chars |-> logged[i].args])
    /\ [][/\ Len(logged') = Len(logged) + 1 => Len(log_calls') = Len(log_calls) + 1
          /\ SubSeq(log_calls', 1, Len(log_calls)) = log_calls]_vars

\* a trace record and an error record have been logged
C24_Witness ==
    /\ Len(logged) = 2 /\ Len(log_calls) = 2
    /\ logged[1].level = "Trace" /\ log_calls[1].level = 4
    /\ logged[2].level = "Error" /\ log_calls[2].level = 1
    /\ Foreign(log_calls[2].message) = [ok |-> TRUE, chars |-> <<72, 233>>]

----------------------------------------------------------------------------
(* C25: the views reached by slice stay inside the backing buffer.         *)

\* C25: every view reached from AscUint8Array::new(buffer) by successful
\* slice calls has offset + len <= buffer.len(), so that as_bytes (and
\* to_array_buffer, which copies as_bytes) reads inside the buffer only.
C25_ViewInBounds ==
    /\ view.offset + view.len <= Len(sbuf)
    /\ ~as_bytes(sbuf, view).panic
    /\ Len(as_bytes(sbuf, view).bytes) = view.len
    /\ (Sliced /\ ~last[1].panic) =>
          /\ last[1].view = view
          /\ last[1].view.offset + last[1].view.len <= last[1].pre.len

\* a view that starts inside the buffer, returned by slice
C25_Witness ==
    /\ Sliced /\ ~last[1].panic
    /\ view.offset = 1 /\ view.len = 1 /\ Len(sbuf) = 3
    /\ as_bytes(sbuf, view).bytes = <<20>>

----------------------------------------------------------------------------
(* C26: the unbounded and the inclusive bounds of slice.                   *)

\* C26 as stated: an unbounded start is the start of the view and an
\* unbounded end is its current length: v.slice(..) is v, v.slice(k..)
\* with k <= len is the last len - k bytes of v; an inclusive end e is the
\* exclusive end e + 1.
C26_Original ==
    Sliced =>
        LET c == last[1]
        IN  /\ (c.sb = Unbounded /\ c.eb = Unbounded) =>
                  (~c.panic /\ c.view = c.pre)
            /\ (c.sb.kind = "Included" /\ c.eb = Unbounded /\ c.sb.value <= c.pre.len) =>
                  /\ ~c.panic
                  /\ c.view = [offset |-> c.pre.offset + c.sb.value,
                               len |-> c.pre.len - c.sb.value]
            /\ (c.eb.kind = "Included" /\ c.eb.value < SliceUsizeMax) =>
                  LET r == slice(c.pre, c.sb, Excluded(c.eb.value + 1))
                  IN  c.panic = r.panic /\ c.view = r.view

----------------------------------------------------------------------------
(* SpecDst: the fat Box alloc_buffer makes, in the two crates              *)
(* (src/subgraph/src/ffi/buffer.rs, src/src/ffi/buffer.rs).                *)

\* fn ceil_div(n, d)
ceil_div(n, d) == (n + d - 1) \div d

\* the root crate: struct Inner<T: ?Sized> { len: usize, buf: T } with
\* buf = [Alignment; m]
Inner_root(a, m) ==
    << Field(SizeOf("usize"), AlignOf("usize")),
       Field(m * SizeOf(a), AlignOf(a)) >>

\* Layout::new::<AscBuf<T, A>>() of the root crate
AscBufLayout_root(a) == StructLayout(Inner_root(a, 0))

\* Layout::for_value(&*buffer) of the root crate: the payload is m units of A
AscBufferLayout_root(a, m) == StructLayout(Inner_root(a, m))

\* buffer_layout of the root crate
buffer_layout_root(t, a, len) ==
    LET e == Layout_extend(AscBufLayout_root(a), Layout_array(t, len))
    IN  IF e.ok THEN pad_to_align(e.layout) ELSE LayoutError

NoBox == [panic |-> TRUE, layout |-> LayoutError, len |-> 0, freed |-> <<>>]

\* alloc_buffer (subgraph crate): the layout given to alloc::alloc and the
\* len of the DstRef
DstRef(t, a, len) ==
    LET layout == buffer_layout(t, a, len)
    IN  IF ~layout.ok THEN NoBox
        ELSE [panic |-> FALSE, layout |-> layout, len |-> len, freed |-> <<>>]

\* alloc_buffer (root crate)
DstRef_root(t, a, len) ==
    LET layout == buffer_layout_root(t, a, len)
    IN  IF ~layout.ok THEN NoBox
        ELSE [panic |-> FALSE, layout |-> layout,
              len |-> ceil_div(len * SizeOf(t), SizeOf(a)), freed |-> <<>>]

InitDst ==
    /\ InitTarget
    /\ dst_len \in 0..USIZE_MAX
    /\ dst_box = <<>>
    /\ dst_box_root = <<>>
    /\ EarlyIdleButTarget
    /\ LastIdleButDst

AllocBuffer ==
    /\ dst_box = <<>>
    /\ dst_box' = <<DstRef(elem_ty, align_ty, dst_len)>>
    /\ UNCHANGED <<dst_len, dst_box_root, othersDst>>

AllocBufferRoot ==
    /\ dst_box_root = <<>>
    /\ dst_box_root' = <<DstRef_root(elem_ty, align_ty, dst_len)>>
    /\ UNCHANGED <<dst_len, dst_box, othersDst>>

\* drop of the Box: dealloc with Layout::for_value(&*box), which the
\* compiler computes from the type and the len of the fat pointer
DropBox ==
    /\ dst_box # <<>> /\ ~dst_box[1].panic /\ dst_box[1].freed = <<>>
    /\ dst_box' = <<[dst_box[1] EXCEPT
                       !.freed = <<AscBufferLayout(elem_ty, align_ty, dst_box[1].len)>>]>>
    /\ UNCHANGED <<dst_len, dst_box_root, othersDst>>

DropBoxRoot ==
    /\ dst_box_root # <<>> /\ ~dst_box_root[1].panic /\ dst_box_root[1].freed = <<>>
    /\ dst_box_root' = <<[dst_box_root[1] EXCEPT
                            !.freed = <<AscBufferLayout_root(align_ty, dst_box_root[1].len)>>]>>
    /\ UNCHANGED <<dst_len, dst_box, othersDst>>

NextDst == AllocBuffer \/ AllocBufferRoot \/ DropBox \/ DropBoxRoot

SpecDst == InitDst /\ [][NextDst]_vars

----------------------------------------------------------------------------
(* C27: the layout allocated is the layout of the boxed value.             *)

\* the layout given to the allocator is the one the box is dropped with,
\* in the crate where the payload is typed by T
MatchesSubgraph ==
    (dst_box # <<>> /\ ~dst_box[1].panic) =>
        LET b == dst_box[1]
        IN  /\ b.layout = AscBufferLayout(elem_ty, align_ty, b.len)
            /\ b.freed # <<>> => b.freed[1] = b.layout
            /\ b.len = dst_len

\* the same in the crate where the payload is typed by A
MatchesRoot ==
    (dst_box_root # <<>> /\ ~dst_box_root[1].panic) =>
        LET b == dst_box_root[1]
        IN  /\ b.layout = AscBufferLayout_root(align_ty, b.len)
            /\ b.freed # <<>> => b.freed[1] = b.layout
            /\ b.len * SizeOf(align_ty) >= dst_len * SizeOf(elem_ty)
            /\ (b.len - 1) * SizeOf(align_ty) < dst_len * SizeOf(elem_ty)

\* C27 as stated: for every T, A and n the layout passed to the allocator
\* is the layout of the boxed value, with which the box is dropped, and the
\* len of the fat pointer describes the allocated payload: n elements of
\* T, or ceil(n * size(T) / size(A)) units of A where the payload is typed
\* by A.
C27_Original == MatchesSubgraph /\ MatchesRoot

----------------------------------------------------------------------------
(* SpecStart: the start routine (lib.rs, exports::start), invoked once or  *)
(* more, with the handlers that log and fault afterwards.                  *)

\* the invocations of start by the host
MaxStarts == 2

\* the calls start makes, in the order of its body
start_steps_logger_first == <<"logger::init", "abort::set_panic_hook">>

start_steps == <<"abort::set_panic_hook", "logger::init">>

\* log::LevelFilter as a number: Off < Error < Warn < Info < Debug < Trace
LevelRank(l) ==
    CASE l = "Off" -> 0 [] l = "Error" -> 1 [] l = "Warn" -> 2
      [] l = "Info" -> 3 [] l = "Debug" -> 4 [] l = "Trace" -> 5

InitStart ==
    /\ st_pc = "idle"
    /\ st_step = 0
    /\ st_hook = "default"
    /\ st_logger = FALSE
    /\ st_max = "Off"
    /\ st_starts = 0
    /\ st_fault = <<>>
    /\ st_aborts = 0
    /\ st_logs = <<>>
    /\ IdleButStart

\* the host invokes the export __subgraph_start
StartCall ==
    /\ st_pc = "idle"
    /\ st_starts < MaxStarts
    /\ st_pc' = "start"
    /\ st_step' = 1
    /\ UNCHANGED <<st_hook, st_logger, st_max, st_starts, st_fault, st_aborts, st_logs,
                   othersStart>>

\* abort::set_panic_hook(): panic::set_hook replaces the hook
SetPanicHook ==
    /\ st_hook' = "abort"
    /\ UNCHANGED <<st_logger, st_max, st_fault>>

\* logger::init(): log::set_logger(&LOGGER).unwrap(), which panics when a
\* logger is set already, then log::set_max_level(LevelFilter::Debug)
LoggerInit ==
    IF st_logger
    THEN /\ st_fault' = <<"SetLoggerError">>
         /\ UNCHANGED <<st_hook, st_logger, st_max>>
    ELSE /\ st_logger' = TRUE
         /\ st_max' = "Debug"
         /\ UNCHANGED <<st_hook, st_fault>>

\* the next call of start; start returns after the last one, and a panic
\* leaves it
StartStep ==
    /\ st_pc = "start"
    /\ IF start_steps[st_step] = "abort::set_panic_hook" THEN SetPanicHook ELSE LoggerInit
    /\ IF st_fault' # <<>>
       THEN st_pc' = "panicking" /\ st_step' = 0 /\ st_starts' = st_starts
       ELSE IF st_step = Len(start_steps)
       THEN st_pc' = "idle" /\ st_step' = 0 /\ st_starts' = st_starts + 1
       ELSE st_pc' = "start" /\ st_step' = st_step + 1 /\ st_starts' = st_starts
    /\ UNCHANGED <<st_aborts, st_logs, othersStart>>

\* a handler uses a macro of the log facade: the record reaches the logger
\* when its level passes log::max_level(), and Logger::log calls the host
LogMacro ==
    /\ st_pc = "idle"
    /\ st_starts >= 1
    /\ Len(st_logs) < MaxRecords
    /\ \E level \in Levels :
          st_logs' = IF st_logger /\ LevelRank(level) <= LevelRank(st_max)
                     THEN Append(st_logs, Logger_log([level |-> level, args |-> <<98>>]).level)
                     ELSE st_logs
    /\ UNCHANGED <<st_pc, st_step, st_hook, st_logger, st_max, st_starts, st_fault,
                   st_aborts, othersStart>>

\* a handler panics
HandlerPanic ==
    /\ st_pc = "idle"
    /\ st_starts >= 1
    /\ st_fault' = <<"handler">>
    /\ st_pc' = "panicking"
    /\ UNCHANGED <<st_step, st_hook, st_logger, st_max, st_starts, st_aborts, st_logs,
                   othersStart>>

\* the panic runtime calls the hook: the bridge calls the host's abort,
\* the default hook prints and the instance traps
RunHook ==
    /\ st_pc = "panicking"
    /\ IF st_hook = "abort"
       THEN st_pc' = abort /\ st_aborts' = st_aborts + 1
       ELSE st_pc' = "trapped" /\ st_aborts' = st_aborts
    /\ UNCHANGED <<st_step, st_hook, st_logger, st_max, st_starts, st_fault, st_logs,
                   othersStart>>

NextStart == StartCall \/ StartStep \/ LogMacro \/ HandlerPanic \/ RunHook

SpecStart == InitStart /\ [][NextStart]_vars

----------------------------------------------------------------------------
(* C28: the bridge is installed before the logger.                         *)

\* C28: start installs the abort bridge before it initializes the logger:
\* the logger is never set while the hook is not the bridge, so that every
\* fault during or after the initialization of the logger, the failed
\* set_logger of a second start included, ends in one call of the host's
\* abort; after a start that returned, the bridge and the logger are
\* installed and the maximum level is debug (no trace record is sent); a
\* second start never returns.
C28_StartOrder ==
    /\ [](st_logger => st_hook = "abort")
    /\ [](st_pc = "panicking" => st_hook = "abort")
    /\ [](st_pc # "trapped")
    /\ []((st_fault # <<>> /\ st_pc # "panicking") => (st_pc = "aborted" /\ st_aborts = 1))
    /\ [](st_fault = <<>> => st_aborts = 0)
    /\ [][st_pc = "panicking" => (st_pc' = "aborted" /\ st_aborts' = st_aborts + 1)]_vars
    /\ [](st_starts >= 1 => (st_hook = "abort" /\ st_logger /\ st_max = "Debug"))
    /\ [](st_starts <= 1)
    /\ [](\A i \in 1..Len(st_logs) : st_logs[i] \in {1, 2, 3, 4})

\* the second start has panicked in logger::init and abort was called
C28_Witness ==
    /\ st_starts = 1
    /\ st_fault = <<"SetLoggerError">>
    /\ st_pc = "aborted" /\ st_aborts = 1
    /\ st_hook = "abort" /\ st_logger /\ st_max = "Debug"

----------------------------------------------------------------------------
(* SpecLinker: Linker::link and normalize_path                             *)
(* (src/cargo-subgraph/src/linker.rs).  A path is its root flag and its    *)
(* components, as Path::components yields them on Unix.  The output       *)
(* directory is absolute: it is cargo's target directory, or a temporary   *)
(* directory in the tests.                                                 *)

\* the components of the longest resource name
MaxComps == 3

CompNames == {"..", ".", "a", "o", "d", "d2"}

PathOf(abs, comps) == [abs |-> abs, comps |-> comps]

\* Path::join: an absolute path replaces the base
join(base, path) ==
    IF path.abs THEN path ELSE PathOf(base.abs, base.comps \o path.comps)

\* PathBuf::pop: drops the last component; false, and no change, when the
\* path is empty or the root
pop(ret) ==
    IF ret.comps = <<>> THEN ret
    ELSE PathOf(ret.abs, SubSeq(ret.comps, 1, Len(ret.comps) - 1))

\* PathBuf::push of one normal component
push(ret, c) == PathOf(ret.abs, Append(ret.comps, c))

\* Path::starts_with: whole components
starts_with(path, base) ==
    /\ path.abs = base.abs
    /\ Len(base.comps) <= Len(path.comps)
    /\ SubSeq(path.comps, 1, Len(base.comps)) = base.comps

\* Path::parent: <<>> is None
parent(path) == IF path.comps = <<>> THEN <<>> ELSE <<pop(path)>>

\* the loop of normalize_path over the components after the root
RECURSIVE normalize_from(_, _)
normalize_from(ret, comps) ==
    IF comps = <<>> THEN ret
    ELSE LET c == Head(comps)
         IN  normalize_from(CASE c = "."  -> ret
                              [] c = ".." -> pop(ret)
                              [] OTHER    -> push(ret, c),
                            Tail(comps))

\* a normalize_path that keeps the parent components
normalize_path_keep_parent(path) ==
    PathOf(path.abs, SelectSeq(path.comps, LAMBDA c : c # "."))

\* fn normalize_path: RootDir is pushed first, then every component
normalize_path(path) == normalize_from(PathOf(path.abs, <<>>), path.comps)

NoWrite == [err |-> "", output |-> <<>>, dirs |-> <<>>, written |-> <<>>, uploaded |-> <<>>]

\* Linker::link: the error it returns ("" for Ok) and what it did before;
\* fs_dirs, fs_write and ipfs are the outcomes of create_dir_all, of
\* write_to_output and of add_and_pin
link(outdir, name, fs_dirs, fs_write, ipfs) ==
    LET output == normalize_path(join(outdir, name))
        r == [NoWrite EXCEPT !.output = <<output>>]
    IN  IF ~starts_with(output, outdir)
        THEN [r EXCEPT !.err = "linking file ends up outside of output directory"]
        ELSE IF parent(output) = <<>>
        THEN [r EXCEPT !.err = "output path has no parent"]
        ELSE IF ~fs_dirs
        THEN [r EXCEPT !.err = "io", !.dirs = parent(output)]
        ELSE IF ~fs_write
        THEN [r EXCEPT !.err = "io", !.dirs = parent(output), !.written = <<output>>]
        ELSE IF ~ipfs
        THEN [r EXCEPT !.err = "ipfs", !.dirs = parent(output), !.written = <<output>>,
                       !.uploaded = <<output>>]
        ELSE [r EXCEPT !.dirs = parent(output), !.written = <<output>>,
                       !.uploaded = <<output>>]

InitLinker ==
    /\ lk_outdir \in {<<PathOf(TRUE, <<"o", "d">>)>>, <<PathOf(TRUE, <<"o">>)>>}
    /\ lk_name \in {<<PathOf(abs, comps)>> : abs \in BOOLEAN,
                                             comps \in SeqsUpTo(CompNames, MaxComps)}
    /\ lk_res = <<>>
    /\ IdleButLinker

Link ==
    /\ lk_res = <<>>
    /\ \E fs_dirs \in BOOLEAN, fs_write \in BOOLEAN, ipfs \in BOOLEAN :
          lk_res' = <<link(lk_outdir[1], lk_name[1], fs_dirs, fs_write, ipfs)>>
    /\ UNCHANGED <<lk_outdir, lk_name, othersLinker>>

NextLinker == Link

SpecLinker == InitLinker /\ [][NextLinker]_vars

----------------------------------------------------------------------------
(* C29: link writes and uploads inside the output directory only.          *)

Linked == lk_res # <<>>

\* where an absolute path leads, followed component by component from the
\* root (the parent of the root is the root)
RECURSIVE Walk(_, _, _)
Walk(comps, dir, at) ==
    IF comps = <<>> THEN at
    ELSE LET c == Head(comps)
         IN  CASE c = "."  -> Walk(Tail(comps), dir, at)
               [] c = ".." -> Walk(Tail(comps), dir,
                                   IF Len(at) > 0 THEN SubSeq(at, 1, Len(at) - 1) ELSE at)
               [] OTHER    -> Walk(Tail(comps), dir, Append(at, c))

\* the path, resolved, is dir or lies below it
Inside(path, dir) ==
    LET at == Walk(path.comps, dir, <<>>)
    IN  /\ path.abs = dir.abs
        /\ Len(at) >= Len(dir.comps)
        /\ SubSeq(at, 1, Len(dir.comps)) = dir.comps

\* C29: for every resource name, relative, with . and .. components, or
\* absolute, every path link writes or uploads lies inside the output
\* directory; when the joined path leads outside, link returns an error
\* and has created no directory, written no file and not called IPFS.
C29_LinkInside ==
    Linked =>
        LET r == lk_res[1]
            outdir == lk_outdir[1]
            asked == join(outdir, lk_name[1])
        IN  /\ \A i \in 1..Len(r.written) : Inside(r.written[i], outdir)
            /\ \A i \in 1..Len(r.uploaded) : Inside(r.uploaded[i], outdir)
            /\ ~Inside(asked, outdir) =>
                  /\ r.err = "linking file ends up outside of output directory"
                  /\ r.dirs = <<>> /\ r.written = <<>> /\ r.uploaded = <<>>
            /\ r.err = "" => (Len(r.written) = 1 /\ r.uploaded = r.written)
            /\ r.uploaded # <<>> => r.written # <<>>

\* a name with a parent component that stays inside is written and uploaded
C29_Witness ==
    /\ Linked
    /\ lk_outdir[1] = PathOf(TRUE, <<"o", "d">>)
    /\ lk_name[1] = PathOf(FALSE, <<"a", "..", "d2">>)
    /\ lk_res[1].err = ""
    /\ lk_res[1].written = <<PathOf(TRUE, <<"o", "d", "d2">>)>>

\* a name that climbs out of the directory is refused before any write
C29_WitnessOutside ==
    /\ Linked
    /\ lk_outdir[1] = PathOf(TRUE, <<"o", "d">>)
    /\ lk_name[1] = PathOf(FALSE, <<"..", "d2", "a">>)
    /\ lk_res[1].err = "linking file ends up outside of output directory"
    /\ lk_res[1].written = <<>>

----------------------------------------------------------------------------
(* SpecRpc: concurrent Client::execute calls on one JSON-RPC client        *)
(* (src/cargo-subgraph/src/api/jsonrpc.rs).                                *)

\* the execute calls in flight on one client
MaxCalls == 5

\* the width of the id counter in the model (64 in the program): with
\* MaxCalls > 2^IdBits the counter wraps
IdBits == 2

IdModulus == 2^IdBits

Calls == 1..MaxCalls

\* AtomicU64::new(0)
AtomicU64_new == 0

\* a read of the counter that stores nothing
fetch_add_no_store(id, n) == [prev |-> id, next |-> id]

\* AtomicU64::fetch_add(n, Ordering::Relaxed): one atomic read-modify-write
\* that returns the previous value and wraps on overflow
fetch_add(id, n) == [prev |-> id, next |-> (id + n) % IdModulus]

InitRpc ==
    /\ rpc_id = AtomicU64_new
    /\ rpc_calls = [c \in Calls |-> [pc |-> "called", id |-> 0 - 1, result |-> ""]]
    /\ rpc_sent = <<>>
    /\ IdleButRpc

\* execute, up to the request it serializes: the id is taken with fetch_add
BuildRequest(c) ==
    /\ rpc_calls[c].pc = "called"
    /\ LET f == fetch_add(rpc_id, 1)
       IN  /\ rpc_id' = f.next
           /\ rpc_calls' = [rpc_calls EXCEPT ![c] = [pc |-> "request", id |-> f.prev,
                                                     result |-> ""]]
           /\ rpc_sent' = Append(rpc_sent, f.prev)
    /\ UNCHANGED othersRpc

\* execute_raw and the decoding of the response: Ok(result) or an error
Respond(c) ==
    /\ rpc_calls[c].pc = "request"
    /\ \E result \in {"Ok", "Err"} :
          rpc_calls' = [rpc_calls EXCEPT ![c].pc = "returned", ![c].result = result]
    /\ UNCHANGED <<rpc_id, rpc_sent, othersRpc>>

NextRpc == \E c \in Calls : BuildRequest(c) \/ Respond(c)

SpecRpc == InitRpc /\ [][NextRpc]_vars

----------------------------------------------------------------------------
(* C30: the ids of the requests of one client.                             *)

Issued == {c \in Calls : rpc_calls[c].pc # "called"}

\* C30: in every interleaving of the execute calls on one client, each
\* call takes its id in one atomic fetch-and-increment: the k-th request
\* built has id k - 1 modulo the width of the counter, so that the ids are
\* pairwise distinct, starting at 0, until the counter wraps, in whatever
\* order the calls complete.
C30_DistinctIds ==
    /\ [](/\ Len(rpc_sent) = Cardinality(Issued)
          /\ rpc_id = Len(rpc_sent) % IdModulus
          /\ \A k \in 1..Len(rpc_sent) : rpc_sent[k] = (k - 1) % IdModulus
          /\ \A c \in Issued : \E k \in 1..Len(rpc_sent) : rpc_calls[c].id = rpc_sent[k]
          /\ Len(rpc_sent) <= IdModulus =>
                \A c, d \in Issued : c # d => rpc_calls[c].id # rpc_calls[d].id)
    /\ [][\A c \in Calls :
             /\ rpc_calls[c].pc # "called" => rpc_calls'[c].id = rpc_calls[c].id
             /\ (rpc_calls[c].pc = "called" /\ rpc_calls'[c].pc # "called") =>
                   (rpc_calls'[c].id = rpc_id /\ rpc_id' = (rpc_id + 1) % IdModulus)]_vars

\* three requests with distinct ids, the last one built completed first
C30_Witness ==
    /\ Len(rpc_sent) = 3
    /\ \E c, d, e \in Calls :
          /\ rpc_calls[c].id = 0 /\ rpc_calls[c].pc = "request"
          /\ rpc_calls[d].id = 1 /\ rpc_calls[d].pc = "request"
          /\ rpc_calls[e].id = 2 /\ rpc_calls[e].pc = "returned"

\* the counter has wrapped: the fifth request has the id of the first
C30_WitnessWrap ==
    /\ Len(rpc_sent) = IdModulus + 1
    /\ rpc_sent[IdModulus + 1] = rpc_sent[1]

====
